---------------------------- MODULE Spec2Model ----------------------------
(***************************************************************************)
(* Webrana AI proxy (backend/src): the rate limiter, the provider router   *)
(* and request handler, the SSE stream forwarders and the format           *)
(* transformers, each as a state machine translated from its source.       *)
(*                                                                         *)
(*   SpecLimiter    services/rate_limiter.rs   RateLimiter                 *)
(*   Spec           routes/proxy.rs            chat_completions            *)
(*   SpecStream     routes/proxy.rs            forward_*_stream            *)
(*   SpecTransform  services/transformers/*    transform_request/response  *)
(*                                                                         *)
(* The four machines share no state; each specification keeps the          *)
(* variables of the other three at their initial values.                   *)
(***************************************************************************)
EXTENDS Integers, Sequences, FiniteSets, TLC

VARIABLES
    \* ---- services/rate_limiter.rs ----
    plan,        \* PlanTier of the user whose counters are modelled
    now,         \* the clock, Utc::now(), in minutes since the model started
    monthly,     \* counter store: month index  -> [n, ttl] of key rate:{user}:{year}:{month}
    minutely,    \* counter store: bucket index -> [n, ttl] of key rate:{user}:minute:{bucket}
    call,        \* caller -> the locals of its check_and_increment call
    audit,       \* history of the current month (not program state)
    usage,       \* the get_usage call: where it stands, what it read
    \* ---- routes/proxy.rs, forward_*_stream ----
    sProvider,   \* the forwarder that runs: the provider of the upstream
    sPc,         \* where the stream! block stands
    sBuffer,     \* `buffer`: the text received and not yet consumed
    sMsgId,      \* `message_id` of forward_anthropic_stream
    sOut,        \* the events yielded to the caller so far, in order
    sChunks,     \* upstream chunks received so far
    sAll,        \* history: every byte received from the upstream, in order
    sText,       \* history: the text pushed onto `buffer`, in order
    \* ---- routes/proxy.rs, chat_completions ----
    req,         \* the request being handled and the response chosen for it
    upstream,    \* the HTTP calls made to providers, in order
    usageLog,    \* the rows of proxy_requests written for the request
    \* ---- services/transformers ----
    xOp,         \* the transformer function applied
    xIn,         \* its argument
    xOut,        \* its result
    \* ---- utils/encryption.rs ----
    vPc,         \* plain, stored, decrypted
    vPlain,      \* the plaintext given to encrypt
    vData,       \* the EncryptedData as stored
    vTampered,   \* the stored data is not what encrypt returned
    vResult,     \* what decrypt returned
    \* ---- services/proxy_key_service.rs, middleware/auth.rs ----
    kPlan,       \* PlanTier the account's generate_key calls are given
    kKeys,       \* the proxy_api_keys table: one row per id, or NoRow
    kCall,       \* per caller: the call in flight and where it stands
    kAudit,      \* history: successful validations, completed revocations
    \* ---- services/api_key_service.rs ----
    cRows,       \* the api_keys table: its rows, in insertion order
    cStored,     \* history: every row ever inserted, as it was inserted
    cCalls,      \* store and delete calls made so far
    cLast        \* the result of the last call

limVars == <<plan, now, monthly, minutely, call, audit, usage>>
streamVars ==
    <<sProvider, sPc, sBuffer, sMsgId, sOut, sChunks, sAll, sText>>
proxyVars == <<req, upstream, usageLog>>
xformVars == <<xOp, xIn, xOut>>
vaultVars == <<vPc, vPlain, vData, vTampered, vResult>>
keyVars == <<kPlan, kKeys, kCall, kAudit>>
credVars == <<cRows, cStored, cCalls, cLast>>
vars ==
    <<limVars, streamVars, proxyVars, xformVars, vaultVars, keyVars, credVars>>

\* What the actions of one machine leave alone: the other machines.
notLimiter ==
    <<streamVars, proxyVars, xformVars, vaultVars, keyVars, credVars>>
notStream ==
    <<limVars, proxyVars, xformVars, vaultVars, keyVars, credVars>>
notProxy ==
    <<limVars, streamVars, xformVars, vaultVars, keyVars, credVars>>
notXform ==
    <<limVars, streamVars, proxyVars, vaultVars, keyVars, credVars>>
notVault ==
    <<limVars, streamVars, proxyVars, xformVars, keyVars, credVars>>
notKeys == <<limVars, streamVars, proxyVars, xformVars, vaultVars, credVars>>
notCreds == <<limVars, streamVars, proxyVars, xformVars, vaultVars, keyVars>>

-----------------------------------------------------------------------------
(* Bounds of the rate limiter model.                                       *)

\* Stand-ins for PlanTier::request_limit (1_000 / 10_000 / 50_000 / 200_000):
\* the monthly ceilings scaled down, keeping Free below and the paid tiers
\* above the burst ceiling.
FreeLimit == 1
StarterLimit == 62
ProLimit == 63
TeamLimit == 64

\* check_and_increment calls started during one run of the model.
MaxCalls == 3
\* get_usage calls started during one run of the model.
MaxUsageCalls == 1
\* The clock runs from minute 0 to minute MaxNow.
MaxNow == 2
\* Minutes in a calendar month, scaled down.
MinutesPerMonth == 2

\* rate_limiter.rs:37
BURST_LIMIT == 60

\* rate_limiter.rs:60,102  the length of a minute bucket, in seconds.
SecondsPerMinute == 60

\* The seconds of a minute at which the clock is read: its first two and its
\* last.
SecondsOfMinute == {0, 1, SecondsPerMinute - 1}

Callers == {"c1", "c2"}
UserPlans == {"Free", "Starter"}

Minutes == 0..MaxNow
Months == 0..(MaxNow \div MinutesPerMonth)

\* billing_service.rs:29 PlanTier::request_limit
request_limit(p) ==
    CASE p = "Free" -> FreeLimit
      [] p = "Starter" -> StarterLimit
      [] p = "Pro" -> ProLimit
      [] p = "Team" -> TeamLimit

\* rate_limiter.rs:52-55  the (year, month) part of the monthly key
monthly_key(t) == t \div MinutesPerMonth

\* rate_limiter.rs:58-61  timestamp / 60
minute_key(t) == t

\* A key that does not exist (GET returns nil, INCR starts from 0).
NoKey == [n |-> 0, ttl |-> "none"]

\* Locals of a call that is not running.
IdleCall == [pc |-> "idle", mkey |-> 0, bkey |-> 0, monthly_used |-> 0,
             minute_used |-> 0, result |-> "none", remaining |-> 0,
             readFailed |-> FALSE, at |-> 0, retry_after |-> 0]

\* Locals of get_usage when it is not running.
IdleUsage == [pc |-> "idle", calls |-> 0, mkey |-> 0, bkey |-> 0,
              monthly_used |-> 0, minute_used |-> 0, result |-> "none"]

InFlight(c) == call[c].pc \in {"connected", "monthly_ok", "minute_ok"}

\* Usage already in the store when the model starts: none for a plan whose
\* ceiling lies below the burst ceiling; for a plan whose ceiling lies above
\* it, a first minute bucket of the month that sequential calls have filled
\* to two below the burst ceiling.
SeedUsage(p) ==
    IF request_limit(p) > BURST_LIMIT THEN BURST_LIMIT - 2 ELSE 0

\* audit: issued   calls started in this run
\*        calls    calls started in the current month (seed included)
\*        allowed  calls of the current month that returned allowed
\*        last     the caller that started the latest call of the month
\*        upset    a store fault or a dropped call happened this month
\*        overlap  two calls of this month were in flight together
\*        burst    a call of this month met the burst ceiling
NewAudit(u) == [issued |-> 0, calls |-> u, allowed |-> u, last |-> "none",
                upset |-> FALSE, overlap |-> FALSE, burst |-> FALSE]

LimiterIdle ==
    /\ plan = "Free"
    /\ now = 0
    /\ monthly = [m \in Months |-> NoKey]
    /\ minutely = [b \in Minutes |-> NoKey]
    /\ call = [c \in Callers |-> IdleCall]
    /\ audit = NewAudit(0)
    /\ usage = IdleUsage

LimiterInit ==
    /\ plan \in UserPlans
    /\ now = 0
    /\ LET u == SeedUsage(plan) IN
          /\ monthly = [m \in Months |->
                IF m = 0 /\ u > 0 THEN [n |-> u, ttl |-> "set"] ELSE NoKey]
          /\ minutely = [b \in Minutes |->
                IF b = 0 /\ u > 0 THEN [n |-> u, ttl |-> "fresh"] ELSE NoKey]
          /\ audit = NewAudit(u)
    /\ call = [c \in Callers |-> IdleCall]
    /\ usage = IdleUsage

-----------------------------------------------------------------------------
(* RateLimiter::check_and_increment, one action per await point.           *)

Limit == request_limit(plan)

\* rate_limiter.rs:79,93  `conn.get(&key).await.unwrap_or(0)`: the counter's
\* value, or 0 when the GET fails (a missing key reads as 0 as well).
GetOrZero(ok, stored) == IF ok THEN stored ELSE 0

\* `used > limit` in place of `used >= limit`.
MonthlyExceededStrict(used, limit) == used > limit

\* rate_limiter.rs:81
MonthlyExceeded(used, limit) == used >= limit

\* rate_limiter.rs:95
BurstExceeded(used) == used >= BURST_LIMIT

\* INCR key 1; EXPIRE key ttl
IncrExpire(store, key, ttl) ==
    [store EXCEPT ![key] = [n |-> @.n + 1, ttl |-> ttl]]

\* A pipeline sent without MULTI/EXEC that breaks after its first two commands.
PipelineTorn(c, applied) ==
    /\ monthly' = IncrExpire(monthly, call[c].mkey, "set")
    /\ minutely' = IF applied THEN IncrExpire(minutely, call[c].bkey, "fresh")
                   ELSE minutely

\* rate_limiter.rs:107-114  redis::pipe().atomic(): MULTI, INCR and EXPIRE of
\* the monthly key, INCR and EXPIRE of the minute key, EXEC. The server runs
\* the four commands together or none of them.
Pipeline(c, applied) ==
    IF applied
    THEN /\ monthly' = IncrExpire(monthly, call[c].mkey, "set")
         /\ minutely' = IncrExpire(minutely, call[c].bkey, "fresh")
    ELSE UNCHANGED <<monthly, minutely>>

\* The call returns: its Result, and whether one of its reads had failed.
Finish(c, result, remaining, readFailed) ==
    [IdleCall EXCEPT !.pc = "done", !.result = result, !.remaining = remaining,
                     !.readFailed = readFailed]

\* rate_limiter.rs:72-76  get the connection, compute both keys from the clock.
Connect(c) ==
    /\ call[c].pc \in {"idle", "done"}
    /\ audit.issued < MaxCalls
    /\ \E ok \in BOOLEAN :
          /\ call' = [call EXCEPT ![c] =
                IF ok
                THEN [IdleCall EXCEPT !.pc = "connected",
                                      !.mkey = monthly_key(now),
                                      !.bkey = minute_key(now)]
                ELSE Finish(c, "err_conn", 0, FALSE)]
          /\ audit' = [audit EXCEPT !.issued = @ + 1, !.calls = @ + 1,
                          !.last = c,
                          !.overlap = @ \/ (\E d \in Callers \ {c} : InFlight(d)),
                          !.upset = @ \/ ~ok]
    /\ UNCHANGED <<plan, now, monthly, minutely>>
    /\ UNCHANGED usage
    /\ UNCHANGED notLimiter

\* rate_limiter.rs:78-90  read the monthly counter, deny at the ceiling.
GetMonthly(c) ==
    /\ call[c].pc = "connected"
    /\ \E ok \in BOOLEAN :
          LET used == GetOrZero(ok, monthly[call[c].mkey].n) IN
          /\ call' = [call EXCEPT ![c] =
                IF MonthlyExceeded(used, Limit)
                THEN Finish(c, "denied_monthly", 0, ~ok)
                ELSE [@ EXCEPT !.pc = "monthly_ok", !.monthly_used = used,
                               !.readFailed = ~ok]]
          /\ audit' = [audit EXCEPT !.upset = @ \/ ~ok]
    /\ UNCHANGED <<plan, now, monthly, minutely>>
    /\ UNCHANGED usage
    /\ UNCHANGED notLimiter

\* Utc::now().timestamp(): the clock, in seconds.
timestamp(minute, second) == minute * SecondsPerMinute + second

\* The seconds left counted from the last second of the bucket.
retry_after_secs_from_last(ts) ==
    (SecondsPerMinute - 1) - (ts % SecondsPerMinute)

\* rate_limiter.rs:102  `60 - (Utc::now().timestamp() % 60)`
retry_after_secs(ts) == SecondsPerMinute - (ts % SecondsPerMinute)

\* rate_limiter.rs:92-104  read the minute counter, deny at the burst ceiling;
\* the denial reads the clock again for its retry-after.
GetMinute(c) ==
    /\ call[c].pc = "monthly_ok"
    /\ \E ok \in BOOLEAN, second \in SecondsOfMinute :
          LET used == GetOrZero(ok, minutely[call[c].bkey].n) IN
          /\ call' = [call EXCEPT ![c] =
                IF BurstExceeded(used)
                THEN [Finish(c, "denied_burst", Limit - call[c].monthly_used,
                             call[c].readFailed \/ ~ok)
                        EXCEPT !.at = timestamp(now, second),
                               !.retry_after =
                                   retry_after_secs(timestamp(now, second))]
                ELSE [@ EXCEPT !.pc = "minute_ok", !.minute_used = used,
                               !.readFailed = @ \/ ~ok]]
          /\ audit' = [audit EXCEPT !.upset = @ \/ ~ok,
                                    !.burst = @ \/ BurstExceeded(used)]
    /\ UNCHANGED <<plan, now, monthly, minutely>>
    /\ UNCHANGED usage
    /\ UNCHANGED notLimiter

\* rate_limiter.rs:106-123  the increment batch. The batch is applied and
\* answered, or applied with the reply lost, or not applied at all; `?`
\* returns the error in the last two cases.
Increment(c) ==
    /\ call[c].pc = "minute_ok"
    /\ \E outcome \in {"applied", "reply_lost", "failed"} :
          /\ Pipeline(c, outcome # "failed")
          /\ call' = [call EXCEPT ![c] =
                IF outcome = "applied"
                THEN Finish(c, "allowed", Limit - call[c].monthly_used - 1,
                            call[c].readFailed)
                ELSE Finish(c, "err_exec", 0, call[c].readFailed)]
          /\ audit' = [audit EXCEPT
                !.upset = @ \/ outcome # "applied",
                !.allowed = IF outcome = "applied" /\ call[c].mkey = monthly_key(now)
                            THEN @ + 1 ELSE @]
    /\ UNCHANGED <<plan, now>>
    /\ UNCHANGED usage
    /\ UNCHANGED notLimiter

\* The request's task is dropped at an await point (the caller went away, the
\* process died): the call never returns.
Cancel(c) ==
    /\ InFlight(c)
    /\ call' = [call EXCEPT ![c] = Finish(c, "dropped", 0, call[c].readFailed)]
    /\ audit' = [audit EXCEPT !.upset = TRUE]
    /\ UNCHANGED <<plan, now, monthly, minutely>>
    /\ UNCHANGED usage
    /\ UNCHANGED notLimiter

-----------------------------------------------------------------------------
(* RateLimiter::get_usage, one action per counter read.                    *)

\* A GET that also renews the expiry of the key it reads.
GetAndTouch(store, key) == [store EXCEPT ![key].ttl = "fresh"]

\* rate_limiter.rs:79,93,136,137  GET key: the store after the command.
Get(store, key) == store

\* rate_limiter.rs:127-136  get the connection, compute both keys from the
\* clock, read the monthly counter.
GetUsageMonthly ==
    /\ usage.pc \in {"idle", "done"}
    /\ usage.calls < MaxUsageCalls
    /\ \E conn \in BOOLEAN, ok \in BOOLEAN :
          IF ~conn
          THEN /\ ok
               /\ usage' = [IdleUsage EXCEPT !.pc = "done",
                               !.calls = usage.calls + 1,
                               !.result = "err_conn"]
               /\ UNCHANGED monthly
          ELSE /\ usage' = [IdleUsage EXCEPT !.pc = "monthly_read",
                               !.calls = usage.calls + 1,
                               !.mkey = monthly_key(now),
                               !.bkey = minute_key(now),
                               !.monthly_used =
                                   GetOrZero(ok, monthly[monthly_key(now)].n)]
               /\ monthly' = Get(monthly, monthly_key(now))
    /\ UNCHANGED <<plan, now, minutely, call, audit>>
    /\ UNCHANGED notLimiter

\* rate_limiter.rs:137-145  read the minute counter, return both.
GetUsageMinute ==
    /\ usage.pc = "monthly_read"
    /\ \E ok \in BOOLEAN :
          usage' = [usage EXCEPT !.pc = "done", !.result = "ok",
                       !.minute_used = GetOrZero(ok, minutely[usage.bkey].n)]
    /\ minutely' = Get(minutely, usage.bkey)
    /\ UNCHANGED <<plan, now, monthly, call, audit>>
    /\ UNCHANGED notLimiter

-----------------------------------------------------------------------------
(* The clock and the store's expiry.                                       *)

\* A minute key lives 60 s from its last EXPIRE (rate_limiter.rs:112): it
\* survives the end of its bucket ("due") and is gone a bucket later.
AgeMinuteKeys(store) ==
    [b \in Minutes |->
        CASE store[b].ttl = "fresh" -> [store[b] EXCEPT !.ttl = "due"]
          [] store[b].ttl = "due" -> NoKey
          [] OTHER -> store[b]]

\* A monthly key lives until the end of the month of its last EXPIRE
\* (rate_limiter.rs:110, seconds_until_month_end).
ExpireMonthlyKeys(store) ==
    [m \in Months |-> IF store[m].ttl = "set" THEN NoKey ELSE store[m]]

\* A minute passes; with it the month ends when the next minute is the first
\* of a month.
Tick ==
    /\ now < MaxNow
    /\ now' = now + 1
    /\ minutely' = AgeMinuteKeys(minutely)
    /\ IF monthly_key(now + 1) # monthly_key(now)
       THEN /\ monthly' = ExpireMonthlyKeys(monthly)
            /\ audit' = [audit EXCEPT !.calls = 0, !.allowed = 0, !.last = "none",
                            !.upset = FALSE, !.burst = FALSE,
                            !.overlap = \E c \in Callers : InFlight(c)]
       ELSE UNCHANGED <<monthly, audit>>
    /\ UNCHANGED <<plan, call>>
    /\ UNCHANGED usage
    /\ UNCHANGED notLimiter

\* A minute key past the end of its bucket reaches its 60 s.
ExpireMinuteKey(b) ==
    /\ minutely[b].ttl = "due"
    /\ minutely' = [minutely EXCEPT ![b] = NoKey]
    /\ UNCHANGED <<plan, now, monthly, call, audit>>
    /\ UNCHANGED usage
    /\ UNCHANGED notLimiter

LimiterNext ==
    \/ \E c \in Callers : Connect(c)
    \/ \E c \in Callers : GetMonthly(c)
    \/ \E c \in Callers : GetMinute(c)
    \/ \E c \in Callers : Increment(c)
    \/ \E c \in Callers : Cancel(c)
    \/ GetUsageMonthly
    \/ GetUsageMinute
    \/ Tick
    \/ \E b \in Minutes : ExpireMinuteKey(b)


-----------------------------------------------------------------------------
(* Claims about the rate limiter (SpecLimiter).                            *)

Errors == {"err_conn", "err_exec"}

\* The calls of the current month so far ran one after another, every store
\* operation succeeded, none was dropped, and none met the burst ceiling.
Undisturbed == ~audit.upset /\ ~audit.overlap /\ ~audit.burst

\* C3: with no store fault, at most Limit calls of a month return allowed,
\* however the calls' reads and increment batches interleave.
C3_AtMostLimitAllowed ==
    ~audit.upset => audit.allowed <= Limit

\* C4: with calls made one after another in one month and the burst ceiling
\* not binding, the Nth call returns allowed if N <= Limit and is denied for
\* the monthly ceiling if N > Limit.
C4_NthCallSequential ==
    \A c \in Callers :
        (call[c].pc = "done" /\ audit.last = c /\ Undisturbed) =>
            /\ (audit.calls <= Limit) => call[c].result = "allowed"
            /\ (audit.calls > Limit) => call[c].result = "denied_monthly"

C4_Witness ==
    \E c \in Callers :
        /\ call[c].pc = "done" /\ audit.last = c /\ Undisturbed
        /\ audit.calls > Limit
        /\ audit.allowed = Limit
        /\ call[c].result = "denied_monthly"

\* C6: a call one of whose counter reads failed returns a dependency error,
\* never allowed and never a denial computed from a made-up value.
C6_ReadFailureIsError ==
    \A c \in Callers :
        (call[c].pc = "done" /\ call[c].readFailed /\ call[c].result # "dropped")
            => call[c].result \in Errors

\* C7: in every step the monthly and the minute counter are incremented
\* together or not at all, each by exactly 1 and each with its expiry set; a
\* call that returns allowed has incremented both of its keys.
C7_IncrementedTogether ==
    [][ /\ (\E m \in Months : monthly'[m].n > monthly[m].n)
            <=> (\E b \in Minutes : minutely'[b].n > minutely[b].n)
        /\ \A m \in Months : monthly'[m].n > monthly[m].n =>
              monthly'[m].n = monthly[m].n + 1 /\ monthly'[m].ttl = "set"
        /\ \A b \in Minutes : minutely'[b].n > minutely[b].n =>
              minutely'[b].n = minutely[b].n + 1 /\ minutely'[b].ttl # "none"
        /\ \A c \in Callers :
              (call[c].pc = "minute_ok" /\ call'[c].result = "allowed") =>
                 /\ monthly'[call[c].mkey].n = monthly[call[c].mkey].n + 1
                 /\ minutely'[call[c].bkey].n = minutely[call[c].bkey].n + 1
      ]_limVars

\* One call was admitted, another one's increment batch failed or was cut
\* short by a drop, and the two counters of the bucket agree.
C7_Witness ==
    /\ \E c, d \in Callers :
          /\ call[c].result = "allowed"
          /\ call[d].result \in {"err_exec", "dropped"}
    /\ monthly[0].n = minutely[0].n
    /\ monthly[0].n > 0


\* A step of check_and_increment that is not its increment batch: the only
\* steps a call that ends denied is made of.
DenyPathStep(c) ==
    /\ call'[c] # call[c]
    /\ call[c].pc # "minute_ok"
    /\ call'[c].result # "dropped"

\* C25: a check_and_increment call that returns denied, for the monthly or
\* for the burst ceiling, and every get_usage call leave both counters and
\* their expirations as they were, in each of their steps.
C25_DeniedAndUsageReadOnly ==
    [][ /\ (\E c \in Callers : DenyPathStep(c)) =>
              monthly' = monthly /\ minutely' = minutely
        /\ \A c \in Callers :
              call'[c] # call[c] /\
              call'[c].result \in {"denied_monthly", "denied_burst"} =>
                  monthly' = monthly /\ minutely' = minutely
        /\ usage' # usage => monthly' = monthly /\ minutely' = minutely
      ]_limVars

\* A call was denied for the burst ceiling and a get_usage call returned the
\* counters it read.
C25_Witness ==
    /\ \E c \in Callers : call[c].result = "denied_burst"
    /\ usage.pc = "done"
    /\ usage.result = "ok"
    /\ usage.minute_used >= BURST_LIMIT


\* The calls so far were all made in minute bucket 0, one after another, and
\* no store operation failed and none was dropped.
SequentialInFirstBucket == now = 0 /\ ~audit.upset /\ ~audit.overlap

\* C26: with calls made one after another in one minute bucket and the
\* monthly ceiling not the binding one, the Nth call of the bucket returns
\* allowed if N <= 60; if N > 60 it is denied with a retry-after equal to the
\* seconds left in the bucket, from 1 to 60, and with the monthly remaining
\* equal to the monthly limit minus the monthly count.
C26_BurstCeilingSequential ==
    \A c \in Callers :
        (/\ call[c].pc = "done" /\ audit.last = c
         /\ SequentialInFirstBucket
         /\ audit.calls <= Limit) =>
            /\ (audit.calls <= BURST_LIMIT) => call[c].result = "allowed"
            /\ (audit.calls > BURST_LIMIT) =>
                  /\ call[c].result = "denied_burst"
                  /\ call[c].retry_after \in 1..SecondsPerMinute
                  /\ call[c].at + call[c].retry_after = SecondsPerMinute
                  /\ call[c].remaining = Limit - monthly[0].n
                  /\ monthly[0].n = BURST_LIMIT

\* The 61st call of the bucket was denied in the last second of the bucket,
\* after the 60th had been let through.
C26_Witness ==
    \E c \in Callers :
        /\ call[c].pc = "done" /\ audit.last = c
        /\ SequentialInFirstBucket
        /\ audit.calls = BURST_LIMIT + 1
        /\ audit.allowed = BURST_LIMIT
        /\ call[c].result = "denied_burst"
        /\ call[c].retry_after = 1

-----------------------------------------------------------------------------
(* routes/proxy.rs: the four SSE forwarders.                               *)
(*                                                                         *)
(* The upstream body is text. The model cuts it into the pieces the        *)
(* forwarders tell apart: a line feed, a field `data: <body>` for a few    *)
(* bodies, and other text. A chunk of the byte stream is a whole frame     *)
(* with its blank line, or one or two pieces, so a frame and its delimiter *)
(* can arrive whole, split across chunks, or behind the end of another.    *)
(* One character of two bytes can follow a field; its bytes are pieces of  *)
(* their own, so a chunk can end between them.                             *)

\* Upstream chunks a forwarder receives before the upstream closes or fails.
MaxChunks == 2

LF == "\n"
\* `data: ` followed by: a content frame of the provider's grammar with the
\* text "a", one with the text "b", an Anthropic message_start, a frame of
\* the provider's grammar with a finish reason and no text, the OpenAI end
\* marker, nothing.
DataPieces ==
    {"data: {delta}", "data: {delta2}", "data: {start}", "data: {finish}",
     "data: [DONE]", "data: "}
\* The two bytes of U+00E9 in UTF-8.
LeadByte == "0xC3"
ContinuationByte == "0xA9"
Pieces == DataPieces \cup {LF, "event: x", LeadByte, ContinuationByte}
UpstreamChunks ==
    {<<a>> : a \in Pieces} \cup {<<a, b>> : a \in Pieces, b \in Pieces}
    \cup {<<d, LF, LF>> : d \in DataPieces \cup {ContinuationByte}}

RECURSIVE from_utf8_lossy(_)
\* String::from_utf8_lossy: the text of the bytes; a lead byte followed by
\* its continuation byte is the character, a lead byte without it and a
\* continuation byte without a lead byte are each U+FFFD.
from_utf8_lossy(bytes) ==
    IF bytes = <<>> THEN <<>>
    ELSE IF bytes[1] = LeadByte
    THEN IF Len(bytes) >= 2 /\ bytes[2] = ContinuationByte
         THEN <<"U+00E9">> \o from_utf8_lossy(SubSeq(bytes, 3, Len(bytes)))
         ELSE <<"U+FFFD">> \o from_utf8_lossy(Tail(bytes))
    ELSE IF bytes[1] = ContinuationByte
    THEN <<"U+FFFD">> \o from_utf8_lossy(Tail(bytes))
    ELSE <<bytes[1]>> \o from_utf8_lossy(Tail(bytes))

StreamProviders == {"OpenAI", "Anthropic", "Google", "Qwen"}

\* The text after the 6 bytes of `data: `.
Body(piece) ==
    CASE piece = "data: {delta}" -> <<"{delta}">>
      [] piece = "data: {delta2}" -> <<"{delta2}">>
      [] piece = "data: {start}" -> <<"{start}">>
      [] piece = "data: {finish}" -> <<"{finish}">>
      [] piece = "data: [DONE]" -> <<"[DONE]">>
      [] piece = "data: " -> <<>>

\* line.starts_with("data: ")
StartsWithData(line) == Len(line) > 0 /\ line[1] \in DataPieces

\* &line[6..]
AfterData(line) == Body(line[1]) \o Tail(line)

MatchAt(s, i, d) ==
    /\ i + Len(d) - 1 <= Len(s)
    /\ \A k \in 1..Len(d) : s[i + k - 1] = d[k]

\* str::find: the first position where d starts, 0 for None.
Find(s, d) ==
    LET hits == {i \in 1..Len(s) : MatchAt(s, i, d)} IN
    IF hits = {} THEN 0 ELSE CHOOSE i \in hits : \A j \in hits : i <= j

RECURSIVE Lines(_)
\* str::lines
Lines(s) ==
    IF s = <<>> THEN <<>>
    ELSE LET p == Find(s, <<LF>>) IN
         IF p = 0 THEN <<s>>
         ELSE <<SubSeq(s, 1, p - 1)>> \o Lines(SubSeq(s, p + 1, Len(s)))

\* proxy.rs:476,515,577,619  the frame delimiter each forwarder scans for.
Delimiter(p) == IF p = "Google" THEN <<LF>> ELSE <<LF, LF>>

\* stream_handler.rs:141-151 StreamHandler::parse_sse_line; <<FALSE>> is None.
parse_sse_line(line) ==
    IF StartsWithData(line)
    THEN IF AfterData(line) = <<"[DONE]">> THEN <<FALSE>>
         ELSE <<TRUE, AfterData(line)>>
    ELSE <<FALSE>>

\* serde_json::from_str into the provider's event type: the event, or "error".
\*   AnthropicStreamEvent (tagged by "type"): the bodies are events, the
\*     finish frame a message_delta with a stop_reason.
\*   GoogleStreamChunk: every field is optional, any JSON object parses; only
\*     the content and the finish frame have candidates.
\*   QwenStreamChunk: `output` and `request_id` are required, only the
\*     content and the finish frame have them.
from_str(p, data) ==
    IF Len(data) # 1
       \/ data[1] \notin {"{delta}", "{delta2}", "{start}", "{finish}"}
    THEN "error"
    ELSE CASE p = "Anthropic" -> data[1]
           [] p = "Google" -> IF data[1] = "{start}" THEN "{}" ELSE data[1]
           [] p = "Qwen" -> IF data[1] = "{start}" THEN "error" ELSE data[1]

\* delta.text, candidates[0].content.parts[0].text, output.text; "" when the
\* frame has none.
Text(event) ==
    CASE event = "{delta}" -> "a"
      [] event = "{finish}" -> ""
      [] OTHER -> "b"

\* stream_handler.rs:201-207, 236-242, 262-268  the finish_reason of the
\* chunk: the frame's reason mapped, "" when the frame has none.
FinishReason(event) == IF event = "{finish}" THEN "stop" ELSE ""

\* stream_handler.rs:154-225, 228-259, 261-284  transform_*_chunk followed by
\* serde_json::to_string: the chunk's JSON, which carries the chunk id, the
\* text of the frame and its finish_reason, or <<>> for None.
transform_chunk(p, event, message_id) ==
    CASE p = "Anthropic" ->
            IF event \in {"{delta}", "{delta2}", "{finish}"}
            THEN <<"{chunk}", message_id, Text(event), FinishReason(event)>>
            ELSE <<>>
      [] p = "Google" ->
            IF event \in {"{delta}", "{delta2}", "{finish}"}
            THEN <<"{chunk}", "uuid", Text(event), FinishReason(event)>>
            ELSE <<>>
      [] p = "Qwen" ->
            <<"{chunk}", "request_id", Text(event), FinishReason(event)>>

\* proxy.rs:520-529  the last `data: ` line of an Anthropic event block.
AnthropicData(block) ==
    LET ls == Lines(block)
        idx == {i \in 1..Len(ls) : StartsWithData(ls[i])}
    IN  IF idx = {} THEN <<>>
        ELSE AfterData(ls[CHOOSE i \in idx : \A j \in idx : j <= i])

\* A forwarder that hands on the data of every `data: ` frame.
FrameEventsPassthrough(p, frame, message_id) ==
    IF StartsWithData(frame) THEN <<AfterData(frame)>> ELSE <<>>

\* The events one frame makes a forwarder yield (none or one): the data of
\* each Event::default().data(..).
\*   proxy.rs:480-482  OpenAI
\*   proxy.rs:520-546  Anthropic
\*   proxy.rs:581-588  Google
\*   proxy.rs:623-630  Qwen
FrameEvents(p, frame, message_id) ==
    CASE p = "OpenAI" ->
            IF StartsWithData(frame) THEN <<AfterData(frame)>> ELSE <<>>
      [] p = "Anthropic" ->
            LET data == AnthropicData(frame) IN
            IF data = <<>> \/ from_str(p, data) = "error" THEN <<>>
            ELSE LET id == IF from_str(p, data) = "{start}" THEN "msg_1"
                           ELSE message_id
                     chunk == transform_chunk(p, from_str(p, data), id)
                 IN  IF chunk = <<>> THEN <<>> ELSE <<chunk>>
      [] OTHER ->
            LET parsed == parse_sse_line(frame) IN
            IF ~parsed[1] \/ from_str(p, parsed[2]) = "error" THEN <<>>
            ELSE LET chunk == transform_chunk(p, from_str(p, parsed[2]), message_id)
                 IN  IF chunk = <<>> THEN <<>> ELSE <<chunk>>

\* A forwarder that never takes the id of a message_start.
FrameMessageIdKept(p, frame, message_id) == message_id

\* proxy.rs:538-540  message_start sets message_id.
FrameMessageId(p, frame, message_id) ==
    IF p = "Anthropic" /\ AnthropicData(frame) # <<>>
       /\ from_str(p, AnthropicData(frame)) = "{start}"
    THEN "msg_1" ELSE message_id

\* proxy.rs:493,556,598,640  Event::default().data("[DONE]")
DoneEvent == <<"[DONE]">>

StreamIdle ==
    /\ sProvider = "OpenAI"
    /\ sPc = "idle"
    /\ sBuffer = <<>>
    /\ sMsgId = ""
    /\ sOut = <<>>
    /\ sChunks = 0
    /\ sAll = <<>>
    /\ sText = <<>>

\* proxy.rs:467-468, 505-507  the stream! block starts.
StreamInit ==
    /\ sProvider \in StreamProviders
    /\ sPc = "await"
    /\ sBuffer = <<>>
    /\ sMsgId = ""
    /\ sOut = <<>>
    /\ sChunks = 0
    /\ sAll = <<>>
    /\ sText = <<>>

RECURSIVE DrainNewestFirst(_, _, _, _)
\* A forwarder that puts the event of each frame in front of those it has
\* already yielded.
DrainNewestFirst(p, buffer, message_id, out) ==
    LET d == Delimiter(p)
        pos == Find(buffer, d)
        frame == SubSeq(buffer, 1, pos - 1)
    IN  IF pos = 0
        THEN [buffer |-> buffer, message_id |-> message_id, out |-> out]
        ELSE DrainNewestFirst(p, SubSeq(buffer, pos + Len(d), Len(buffer)),
                              FrameMessageId(p, frame, message_id),
                              FrameEvents(p, frame, message_id) \o out)

RECURSIVE Drain(_, _, _, _)
\* `while let Some(pos) = buffer.find(delimiter)`: cut each complete frame
\* off the buffer and yield its event, until no delimiter is left.
Drain(p, buffer, message_id, out) ==
    LET d == Delimiter(p)
        pos == Find(buffer, d)
        frame == SubSeq(buffer, 1, pos - 1)
    IN  IF pos = 0
        THEN [buffer |-> buffer, message_id |-> message_id, out |-> out]
        ELSE Drain(p, SubSeq(buffer, pos + Len(d), Len(buffer)),
                   FrameMessageId(p, frame, message_id),
                   out \o FrameEvents(p, frame, message_id))

\* byte_stream.next() gives Some(Ok(bytes)):
\* buffer.push_str(&String::from_utf8_lossy(&bytes)), then the inner loop
\* over the complete frames.
RecvChunk(bytes) ==
    /\ sPc = "await"
    /\ sChunks < MaxChunks
    /\ LET after == Drain(sProvider, sBuffer \o from_utf8_lossy(bytes),
                          sMsgId, sOut)
       IN /\ sBuffer' = after.buffer
          /\ sMsgId' = after.message_id
          /\ sOut' = after.out
    /\ sChunks' = sChunks + 1
    /\ sAll' = sAll \o bytes
    /\ sText' = sText \o from_utf8_lossy(bytes)
    /\ UNCHANGED <<sProvider, sPc>>
    /\ UNCHANGED notStream

\* byte_stream.next() gives None, or Some(Err(e)) and the loop breaks: the
\* block yields the end marker and ends.
UpstreamEnds(how) ==
    /\ sPc = "await"
    /\ sOut' = Append(sOut, DoneEvent)
    /\ sPc' = how
    /\ UNCHANGED <<sProvider, sBuffer, sMsgId, sChunks, sAll, sText>>
    /\ UNCHANGED notStream

\* The caller goes away: the response body, and the stream with it, is dropped.
ClientDisconnect ==
    /\ sPc = "await"
    /\ sPc' = "dropped"
    /\ UNCHANGED <<sProvider, sBuffer, sMsgId, sOut, sChunks, sAll, sText>>
    /\ UNCHANGED notStream

StreamNext ==
    \/ \E bytes \in UpstreamChunks : RecvChunk(bytes)
    \/ \E how \in {"closed", "failed"} : UpstreamEnds(how)
    \/ ClientDisconnect

-----------------------------------------------------------------------------
(* Claims about the SSE forwarders (SpecStream).                           *)

Ended == sPc \in {"closed", "failed"}
DoneCount == Cardinality({i \in 1..Len(sOut) : sOut[i] = DoneEvent})

\* C1: on the Anthropic, Google and Qwen paths, whatever chunks the upstream
\* sent (none, unparseable frames, a stream cut short by a connection
\* error), the events sent to the caller end with exactly one "[DONE]": it
\* is sent when the upstream ends, it is the last event, and no "[DONE]" is
\* sent before the upstream ends.
C1_TransformedStreamEndsWithOneDone ==
    sProvider \in {"Anthropic", "Google", "Qwen"} =>
        /\ Ended => /\ Len(sOut) >= 1
                    /\ sOut[Len(sOut)] = DoneEvent
                    /\ DoneCount = 1
        /\ ~Ended => DoneCount = 0

\* An Anthropic stream that sent a chunk and then failed in the middle of a
\* frame.
C1_Witness ==
    /\ sProvider = "Anthropic"
    /\ sPc = "failed"
    /\ sBuffer # <<>>
    /\ Len(sOut) = 2
    /\ sOut[1][1] = "{chunk}"

\* C2: on the OpenAI passthrough, whatever `data: ` frames the upstream
\* sent, its own `data: [DONE]` included, the events sent to the caller
\* hold exactly one "[DONE]", and it is the last event.
C2_PassthroughEndsWithOneDone ==
    (sProvider = "OpenAI" /\ Ended) =>
        /\ Len(sOut) >= 1
        /\ sOut[Len(sOut)] = DoneEvent
        /\ DoneCount = 1

RECURSIVE ArrivedFrames(_, _)
\* The complete frames of the text received, in the order they arrived.
ArrivedFrames(bytes, d) ==
    LET pos == Find(bytes, d) IN
    IF pos = 0 THEN <<>>
    ELSE <<SubSeq(bytes, 1, pos - 1)>>
            \o ArrivedFrames(SubSeq(bytes, pos + Len(d), Len(bytes)), d)

\* The message id known when frame i arrives: that of a message_start among
\* the frames before it.
IdBefore(p, frames, i) ==
    IF \E j \in 1..(i - 1) : FrameMessageId(p, frames[j], "") = "msg_1"
    THEN "msg_1" ELSE ""

\* The chunk frame i produces: <<>> or <<chunk>>.
ChunkOf(p, frames, i) == FrameEvents(p, frames[i], IdBefore(p, frames, i))

\* The events sent before the end marker.
Sent == IF Ended THEN SubSeq(sOut, 1, Len(sOut) - 1) ELSE sOut

\* C18: within one streaming response the chunks are sent in the order in
\* which their source frames arrived: the chunk of the n-th frame that
\* produces one is the n-th event sent, so the chunk of an earlier frame is
\* sent before that of a later one and no chunk is sent twice.
C18_ChunksInArrivalOrder ==
    LET frames == ArrivedFrames(sText, Delimiter(sProvider))
        producing == {i \in 1..Len(frames) :
                         ChunkOf(sProvider, frames, i) # <<>>}
        Rank(i) == Cardinality({j \in producing : j <= i})
    IN  /\ Len(Sent) = Cardinality(producing)
        /\ \A i \in producing :
              Sent[Rank(i)] = ChunkOf(sProvider, frames, i)[1]

\* An Anthropic stream: a frame with the text "b", then one with the text
\* "a", sent as "b" then "a".
C18_Witness ==
    /\ sProvider = "Anthropic"
    /\ Len(ArrivedFrames(sText, Delimiter(sProvider))) = 2
    /\ Len(Sent) = 2
    /\ Sent[1][3] = "b"
    /\ Sent[2][3] = "a"


\* Frame i of an Anthropic stream is a message_start event.
IsMessageStart(frames, i) == AnthropicData(frames[i]) = <<"{start}">>

\* C24 (as stated): in an Anthropic stream every chunk sent carries the
\* message id of the stream's message_start; none carries an empty id.
C24_EveryChunkHasMessageId ==
    sProvider = "Anthropic" =>
        \A n \in 1..Len(Sent) : Sent[n][2] = "msg_1"

\* C24: in an Anthropic stream every chunk whose frame arrives after the
\* message_start event carries the message id of that event, and no id from
\* another event; a chunk whose frame arrives before any message_start
\* carries the empty id.
C24_ChunkIdFromMessageStart ==
    LET frames == ArrivedFrames(sText, Delimiter(sProvider))
        producing == {i \in 1..Len(frames) :
                         ChunkOf(sProvider, frames, i) # <<>>}
        Rank(i) == Cardinality({j \in producing : j <= i})
    IN  sProvider = "Anthropic" =>
            /\ Len(Sent) = Cardinality(producing)
            /\ \A i \in producing :
                  Sent[Rank(i)][2] =
                      IF \E j \in 1..(i - 1) : IsMessageStart(frames, j)
                      THEN "msg_1" ELSE ""

\* A message_start, then a content frame, sent with the id of the
\* message_start.
C24_Witness ==
    /\ sProvider = "Anthropic"
    /\ Len(ArrivedFrames(sText, <<LF, LF>>)) = 2
    /\ IsMessageStart(ArrivedFrames(sText, <<LF, LF>>), 1)
    /\ Len(Sent) = 1
    /\ Sent[1][2] = "msg_1"


\* C27: in a Google stream, once a chunk with a finish_reason has been sent,
\* no chunk with content is sent after it.
C27_NoContentAfterFinish ==
    sProvider = "Google" =>
        \A i, j \in 1..Len(Sent) :
            (i < j /\ Sent[i][4] # "") => Sent[j][3] = ""


\* C29: the events sent for the bytes received so far are those the
\* forwarder sends when the same bytes arrive as one chunk, wherever the
\* chunks were cut: inside a frame, inside the delimiter, inside a
\* character.
C29_SameEventsForEverySplit ==
    Sent = Drain(sProvider, from_utf8_lossy(sAll), "", <<>>).out

\* C30: when the upstream has closed cleanly no frame that produces a chunk
\* is left in the buffer: the last frame has produced its chunk before
\* "[DONE]" also when no delimiter follows it.
C30_LastFrameSentBeforeDone ==
    sPc = "closed" =>
        /\ FrameEvents(sProvider, sBuffer, sMsgId) = <<>>
        /\ sOut[Len(sOut)] = DoneEvent

-----------------------------------------------------------------------------
(* services/transformers/mod.rs: Provider::from_model, and                 *)
(* routes/proxy.rs: chat_completions with the forward_to_* it calls.       *)
(*                                                                         *)
(* A model name is a sequence of characters.                               *)

\* Characters a model name carries after its stem.
MaxSuffix == 1

Stems ==
    { <<"g","p","t","-">>, <<"o","1","-">>, <<"c","l","a","u","d","e","-">>,
      <<"g","e","m","i","n","i","-">>, <<"q","w","e","n","-">>,
      <<"q","w","e","n","2","-">>,
      \* near misses
      <<>>, <<"g","p","t">>, <<"o","1">>, <<"G","P","T","-">>,
      <<"q","w","e","n","3","-">>, <<"q","w","e","n","2">>,
      <<" ","g","p","t","-">>, <<"c","l","a","u","d","e">>,
      <<"l","l","a","m","a","-">> }
SuffixChars == {"4", "-"}
RECURSIVE Suffixes(_)
Suffixes(n) ==
    IF n = 0 THEN {<<>>}
    ELSE Suffixes(n - 1) \cup
         {Append(s, ch) : s \in {t \in Suffixes(n - 1) : Len(t) = n - 1},
                          ch \in SuffixChars}
ModelNames == {stem \o suffix : stem \in Stems, suffix \in Suffixes(MaxSuffix)}

\* str::starts_with
starts_with(s, prefix) ==
    /\ Len(prefix) <= Len(s)
    /\ SubSeq(s, 1, Len(prefix)) = prefix

\* A router that takes the prefix without its dash.
from_model_loose(model) ==
    IF starts_with(model, <<"g","p","t">>) \/ starts_with(model, <<"o","1">>)
    THEN "OpenAI"
    ELSE IF starts_with(model, <<"c","l","a","u","d","e">>) THEN "Anthropic"
    ELSE IF starts_with(model, <<"g","e","m","i","n","i">>) THEN "Google"
    ELSE IF starts_with(model, <<"q","w","e","n">>) THEN "Qwen"
    ELSE "None"

\* transformers/mod.rs:82-94 Provider::from_model
from_model(model) ==
    IF starts_with(model, <<"g","p","t","-">>) \/ starts_with(model, <<"o","1","-">>)
    THEN "OpenAI"
    ELSE IF starts_with(model, <<"c","l","a","u","d","e","-">>) THEN "Anthropic"
    ELSE IF starts_with(model, <<"g","e","m","i","n","i","-">>) THEN "Google"
    ELSE IF starts_with(model, <<"q","w","e","n","-">>)
            \/ starts_with(model, <<"q","w","e","n","2","-">>)
    THEN "Qwen"
    ELSE "None"

\* The upstream's HTTP status: a success, a client error, a server error.
UpstreamStatuses == {200, 429, 500}

\* proxy.rs:691-701 proxy_error; the code is <<word, ...>>, joined by "_".
proxy_error(status, code) == [status |-> status, code |-> code, body |-> "error"]

\* The first word of the codes of a provider's errors.
CodePrefix(p) ==
    CASE p = "OpenAI" -> "OPENAI"
      [] p = "Anthropic" -> "ANTHROPIC"
      [] p = "Google" -> "GOOGLE"
      [] p = "Qwen" -> "QWEN"

NoResponse == [status |-> 0, code |-> <<>>, body |-> ""]

NewRequest(model, stream) ==
    [model |-> model, stream |-> stream, pc |-> "received", provider |-> "None",
     key |-> "none", upstatus |-> 0, response |-> NoResponse]

ProxyIdle ==
    /\ req = NewRequest(<<>>, FALSE)
    /\ upstream = <<>>
    /\ usageLog = <<>>

\* An authenticated request reaches the handler (api_key_auth passed).
ProxyInit ==
    /\ req \in {NewRequest(m, s) : m \in ModelNames, s \in BOOLEAN}
    /\ upstream = <<>>
    /\ usageLog = <<>>

Respond(r) == req' = [req EXCEPT !.pc = "responded", !.response = r]

\* proxy.rs:116-142  Provider::from_model, then ApiKeyServiceImpl::from_env.
Route ==
    /\ req.pc = "received"
    /\ LET provider == from_model(req.model) IN
       IF provider = "None"
       THEN Respond(proxy_error(400, <<"UNKNOWN_MODEL">>))
       ELSE \E env \in {"ok", "err"} :
               IF env = "err"
               THEN req' = [req EXCEPT !.pc = "responded", !.provider = provider,
                              !.response = proxy_error(500, <<"CONFIG_ERROR">>)]
               ELSE req' = [req EXCEPT !.pc = "routed", !.provider = provider]
    /\ UNCHANGED <<upstream, usageLog>>
    /\ UNCHANGED notProxy

\* api_key_service.rs:194-227 get_decrypted_key: the plaintext key ("ok"),
\* or ApiKeyError::NotFound when the user has no active row for the
\* provider, ::Database when a statement fails, ::Encryption when decrypt
\* rejects the stored data.
KeyOutcomes == {"ok", "not_found", "database", "decrypt"}

\* proxy.rs:161-174 (and the same lines of forward_to_anthropic, _google,
\* _qwen): get_decrypted_key; every error is answered alike.
GetDecryptedKey ==
    /\ req.pc = "routed"
    /\ \E outcome \in KeyOutcomes :
          IF outcome = "ok"
          THEN req' = [req EXCEPT !.pc = "keyed", !.key = outcome]
          ELSE req' = [req EXCEPT !.pc = "responded", !.key = outcome,
                          !.response =
                              proxy_error(400, <<CodePrefix(req.provider),
                                                 "KEY_NOT_CONFIGURED">>)]
    /\ UNCHANGED <<upstream, usageLog>>
    /\ UNCHANGED notProxy

\* proxy.rs:180-198  client.post(url)...send(): the call to the provider.
Send ==
    /\ req.pc = "keyed"
    /\ upstream' = Append(upstream, [provider |-> req.provider, stream |-> req.stream])
    /\ \E sent \in BOOLEAN :
          IF sent
          THEN \E st \in UpstreamStatuses :
                  req' = [req EXCEPT !.pc = "answered", !.upstatus = st]
          ELSE Respond(proxy_error(502, <<CodePrefix(req.provider), "CONNECTION_ERROR">>))
    /\ UNCHANGED usageLog
    /\ UNCHANGED notProxy

\* proxy.rs:200-205, 253-281  the response: the SSE forwarder for a
\* streaming success; for OpenAI otherwise forward_response; for the others
\* the transformed body of a success, forward_response_with_status else.
Answer ==
    /\ req.pc = "answered"
    /\ LET ok == req.upstatus = 200 IN
       IF req.stream /\ ok
       THEN Respond([status |-> 200, code |-> <<>>, body |-> "sse"])
       ELSE \E read \in BOOLEAN :
               IF req.provider # "OpenAI" /\ ok
               THEN IF read
                    THEN Respond([status |-> 200, code |-> <<>>, body |-> "unified"])
                    ELSE Respond(proxy_error(502, <<CodePrefix(req.provider), "PARSE_ERROR">>))
               ELSE IF read
                    THEN Respond([status |-> req.upstatus, code |-> <<>>, body |-> "upstream"])
                    ELSE Respond(proxy_error(502, <<"RESPONSE_READ_ERROR">>))
    /\ UNCHANGED <<upstream, usageLog>>
    /\ UNCHANGED notProxy

ProxyNext ==
    \/ Route
    \/ GetDecryptedKey
    \/ Send
    \/ Answer

-----------------------------------------------------------------------------
(* Claims about the request handler (Spec).                                *)

\* C5: every call to an upstream provider was admitted by the rate limiter
\* first, which consumed one unit of the monthly and of the minute counter
\* for it: the handler has made no more upstream calls than the counters
\* of the current month and minute count.
C5_UpstreamOnlyAfterAdmission ==
    /\ Len(upstream) <= monthly[monthly_key(now)].n
    /\ Len(upstream) <= minutely[minute_key(now)].n

\* C9: the provider chosen for a request depends on nothing but the prefix
\* of its model name: gpt- and o1- give OpenAI, claude- Anthropic, gemini-
\* Google, qwen- and qwen2- Qwen; every name is routed; any other name gets
\* no provider, status 400, and no upstream call.
C9_RoutedByPrefix ==
    LET Begins(pre) == \E k \in 0..Len(req.model) : SubSeq(req.model, 1, k) = pre
        expected ==
            CASE Begins(<<"g","p","t","-">>) -> "OpenAI"
              [] Begins(<<"o","1","-">>) -> "OpenAI"
              [] Begins(<<"c","l","a","u","d","e","-">>) -> "Anthropic"
              [] Begins(<<"g","e","m","i","n","i","-">>) -> "Google"
              [] Begins(<<"q","w","e","n","-">>) -> "Qwen"
              [] Begins(<<"q","w","e","n","2","-">>) -> "Qwen"
              [] OTHER -> "None"
    IN  /\ req.pc = "received" => ENABLED Route
        /\ req.pc # "received" =>
              /\ req.provider = expected
              /\ \A i \in 1..Len(upstream) : upstream[i].provider = expected
              /\ expected = "None" =>
                    /\ req.pc = "responded"
                    /\ req.response.status = 400
                    /\ upstream = <<>>

\* "gpt" without its dash was answered 400.
C9_Witness ==
    /\ req.model = <<"g","p","t">>
    /\ req.pc = "responded"
    /\ req.response = proxy_error(400, <<"UNKNOWN_MODEL">>)
    /\ upstream = <<>>

\* C19: when the calling user has no active credential for the provider the
\* model routes to, the gateway answers with HTTP 401 and the standard error
\* body, and makes no upstream call.
C19_MissingKeyIs401 ==
    (req.key = "not_found" /\ req.pc = "responded") =>
        /\ req.response.status = 401
        /\ req.response.body = "error"
        /\ upstream = <<>>

\* C20: when decryption of the stored provider credential fails, the
\* request is answered with HTTP 500 as a configuration or internal error,
\* no upstream call is made, and the answer is never a missing-credential
\* or invalid-credential error.
C20_DecryptFailureIs500 ==
    (req.key = "decrypt" /\ req.pc = "responded") =>
        /\ req.response.status = 500
        /\ req.response.code
              # <<CodePrefix(req.provider), "KEY_NOT_CONFIGURED">>
        /\ upstream = <<>>

\* C21: whenever the upstream provider answers with a non-2xx status, for
\* every provider and with or without streaming, the caller is answered
\* with HTTP 502, with the provider's error body where it could be read.
C21_UpstreamErrorIs502 ==
    (req.pc = "responded" /\ req.upstatus \in UpstreamStatuses \ {200}) =>
        /\ req.response.status = 502
        /\ req.response.body \in {"upstream", "error"}

\* C22: every chat-completion call that reached the upstream provider and
\* was answered by it eventually has one UsageRecord persisted for it.
C22_CallIsRecorded ==
    (req.pc = "responded" /\ req.upstatus # 0) ~> (Len(usageLog) = 1)

-----------------------------------------------------------------------------
(* services/transformers: AnthropicTransformer::transform_request and the  *)
(* usage block of the three transform_response functions.                  *)
(*                                                                         *)
(* An Option is <<>> for None and <<v>> for Some(v).                       *)

\* Messages of a unified request.
MaxMsgs == 3
\* The largest token count a native response reports.
MaxTokens == 2

Roles == {"system", "user", "assistant", "tool"}
Contents == {"", "hi"}
Messages == [role : Roles, content : Contents]
RECURSIVE SeqsUpTo(_, _)
SeqsUpTo(S, n) ==
    IF n = 0 THEN {<<>>}
    ELSE SeqsUpTo(S, n - 1) \cup
         {Append(s, x) : s \in {t \in SeqsUpTo(S, n - 1) : Len(t) = n - 1}, x \in S}
Requests == [messages : SeqsUpTo(Messages, MaxMsgs)]

Tokens == 0..MaxTokens
Option(S) == {<<>>} \cup {<<v>> : v \in S}
\* anthropic.rs:57-61 AnthropicUsage
AnthropicUsages == [input_tokens : Tokens, output_tokens : Tokens]
\* google.rs:62-70 UsageMetadata, google.rs:50-51 usage_metadata
GoogleUsages ==
    Option([prompt_token_count : Option(Tokens),
            candidates_token_count : Option(Tokens),
            total_token_count : Option(Tokens)])
\* qwen.rs:72-77 QwenUsage
QwenUsages ==
    [input_tokens : Tokens, output_tokens : Tokens, total_tokens : Option(Tokens)]

\* Option::unwrap_or
unwrap_or(opt, default) == IF opt = <<>> THEN default ELSE opt[1]

\* A transform that leaves the system message among the messages.
transform_request_keep_system(request) ==
    LET IsSystem(m) == m.role = "system"
        sys == SelectSeq(request.messages, IsSystem)
    IN  [system |-> IF sys = <<>> THEN <<>> ELSE <<sys[Len(sys)].content>>,
         messages |-> request.messages]

\* anthropic.rs:70-101 AnthropicTransformer::transform_request: the loop
\* leaves in `system` the content of the last system message and pushes the
\* other messages in order.
transform_request(request) ==
    LET IsSystem(m) == m.role = "system"
        NotSystem(m) == m.role # "system"
        sys == SelectSeq(request.messages, IsSystem)
    IN  [system |-> IF sys = <<>> THEN <<>> ELSE <<sys[Len(sys)].content>>,
         messages |-> SelectSeq(request.messages, NotSystem)]

\* anthropic.rs:138-142  usage of AnthropicTransformer::transform_response
anthropic_usage(u) ==
    [prompt_tokens |-> u.input_tokens,
     completion_tokens |-> u.output_tokens,
     total_tokens |-> u.input_tokens + u.output_tokens]

\* google.rs:165-173  usage of GoogleTransformer::transform_response
google_usage(usage_metadata) ==
    IF usage_metadata = <<>>
    THEN [prompt_tokens |-> 0, completion_tokens |-> 0, total_tokens |-> 0]
    ELSE LET u == usage_metadata[1] IN
         [prompt_tokens |-> unwrap_or(u.prompt_token_count, 0),
          completion_tokens |-> unwrap_or(u.candidates_token_count, 0),
          total_tokens |-> unwrap_or(u.total_token_count, 0)]

\* qwen.rs:166-171  usage of QwenTransformer::transform_response
qwen_usage(u) ==
    [prompt_tokens |-> u.input_tokens,
     completion_tokens |-> u.output_tokens,
     total_tokens |-> unwrap_or(u.total_tokens, u.input_tokens + u.output_tokens)]

\* A transform that hands every role on as it is.
google_transform_request_keep_roles(request) ==
    LET IsSystem(m) == m.role = "system"
        NotSystem(m) == m.role # "system"
        sys == SelectSeq(request.messages, IsSystem)
        rest == SelectSeq(request.messages, NotSystem)
    IN  [contents |-> [i \in 1..Len(rest) |->
                         [role |-> rest[i].role, parts |-> <<rest[i].content>>]],
         system_instruction |->
            IF sys = <<>> THEN <<>>
            ELSE <<[role |-> "user", parts |-> <<sys[Len(sys)].content>>]>>]

\* google.rs:79-125 GoogleTransformer::transform_request: the loop leaves in
\* `system_instruction` the last system message as a content of role user,
\* and pushes the other messages in order, assistant renamed to model.
google_transform_request(request) ==
    LET IsSystem(m) == m.role = "system"
        NotSystem(m) == m.role # "system"
        sys == SelectSeq(request.messages, IsSystem)
        rest == SelectSeq(request.messages, NotSystem)
        GoogleRole(r) == IF r = "assistant" THEN "model" ELSE r
    IN  [contents |-> [i \in 1..Len(rest) |->
                         [role |-> GoogleRole(rest[i].role),
                          parts |-> <<rest[i].content>>]],
         system_instruction |->
            IF sys = <<>> THEN <<>>
            ELSE <<[role |-> "user", parts |-> <<sys[Len(sys)].content>>]>>]

\* ---- services/usage_logger.rs: ProviderPricing, UsageLogger ----
MaxCostSteps == 4
TokenStep == 300
\* usage_logger.rs:176-177 prompt_tokens, completion_tokens: i32, here the
\* non-negative counts 0, TokenStep, .., MaxCostSteps * TokenStep, and 1
CostTokens == {n * TokenStep : n \in 0..MaxCostSteps} \cup {1}

CostProviders == {"OpenAI", "Anthropic", "Google", "Qwen"}
CostModels ==
    {<<"g","p","t","-","4","-","t","u","r","b","o">>,
     <<"g","p","t","-","4","o">>,
     <<"g","p","t","-","4">>,
     <<"o","1","-","m","i","n","i">>,
     <<"g","p","t","-","3",".","5">>,
     <<"c","l","a","u","d","e","-","3","-","o","p","u","s">>,
     <<"c","l","a","u","d","e","-","3","-","s","o","n","n","e","t">>,
     <<"c","l","a","u","d","e","-","3","-","h","a","i","k","u">>,
     <<"g","e","m","i","n","i","-","f","l","a","s","h">>,
     <<"g","e","m","i","n","i","-","p","r","o">>,
     <<"q","w","e","n","-","m","a","x">>,
     <<"q","w","e","n","-","p","l","u","s">>,
     <<"q","w","e","n","-","t","u","r","b","o">>}

\* str::contains
contains(s, pat) == Find(s, pat) # 0

\* usage_logger.rs:32-35 ProviderPricing
Pricing(input, output) ==
    [input_per_million |-> input, output_per_million |-> output]

\* usage_logger.rs:49-63
openai_pricing(model) ==
    IF contains(model, <<"g","p","t","-","4","-","t","u","r","b","o">>)
          \/ contains(model, <<"g","p","t","-","4","o">>)
    THEN Pricing(155000, 465000)
    ELSE IF starts_with(model, <<"g","p","t","-","4">>)
    THEN Pricing(465000, 930000)
    ELSE IF starts_with(model, <<"o","1">>)
    THEN Pricing(232500, 930000)
    ELSE Pricing(7750, 23250)

\* usage_logger.rs:65-77
anthropic_pricing(model) ==
    IF contains(model, <<"o","p","u","s">>)
    THEN Pricing(232500, 1162500)
    ELSE IF contains(model, <<"s","o","n","n","e","t">>)
    THEN Pricing(46500, 232500)
    ELSE Pricing(3875, 19375)

\* usage_logger.rs:79-88
google_pricing(model) ==
    IF contains(model, <<"f","l","a","s","h">>)
    THEN Pricing(1163, 4650)
    ELSE Pricing(54250, 162750)

\* usage_logger.rs:90-103
qwen_pricing(model) ==
    IF contains(model, <<"m","a","x">>)
    THEN Pricing(31000, 93000)
    ELSE IF contains(model, <<"p","l","u","s">>)
    THEN Pricing(7750, 23250)
    ELSE Pricing(1550, 4650)

\* usage_logger.rs:40-47
for_model(provider, model) ==
    CASE provider = "OpenAI" -> openai_pricing(model)
      [] provider = "Anthropic" -> anthropic_pricing(model)
      [] provider = "Google" -> google_pricing(model)
      [] provider = "Qwen" -> qwen_pricing(model)

\* i64 division: the quotient rounded towards zero
i64_div(a, b) == IF a >= 0 THEN a \div b ELSE -((-a) \div b)

\* A cost that keeps the remainder of each division, not its quotient.
calculate_cost_remainder(provider, model, prompt_tokens, completion_tokens) ==
    LET pricing == for_model(provider, model)
    IN  ((prompt_tokens * pricing.input_per_million) % 1000000)
          + ((completion_tokens * pricing.output_per_million) % 1000000)

\* usage_logger.rs:174-186. The products are i64: with i32 counts and the
\* prices above they stay below 2^52 and do not wrap.
calculate_cost(provider, model, prompt_tokens, completion_tokens) ==
    LET pricing == for_model(provider, model)
        input_cost ==
            i64_div(prompt_tokens * pricing.input_per_million, 1000000)
        output_cost ==
            i64_div(completion_tokens * pricing.output_per_million, 1000000)
    IN  input_cost + output_cost

CostInputs ==
    [provider : CostProviders, model : CostModels,
     prompt_tokens : CostTokens, completion_tokens : CostTokens]

\* ---- finishReason of a Google candidate ----
\* finish_reason: Option<String>, as characters: the values of
\* the API, one it does not list, and ones in other cases.
FinishReasons ==
    {<<"S","T","O","P">>, <<"M","A","X","_","T","O","K","E","N","S">>,
     <<"S","A","F","E","T","Y">>,
     <<"R","E","C","I","T","A","T","I","O","N">>,
     <<"O","T","H","E","R">>, <<"S","t","o","p">>, <<"s","a","f","e","t","y">>}

UpperCase ==
    <<"A","B","C","D","E","F","G","H","I","J","K","L","M",
      "N","O","P","Q","R","S","T","U","V","W","X","Y","Z">>
LowerCase ==
    <<"a","b","c","d","e","f","g","h","i","j","k","l","m",
      "n","o","p","q","r","s","t","u","v","w","x","y","z">>

\* str::to_lowercase
to_lowercase(str) ==
    [i \in 1..Len(str) |->
        IF \E k \in 1..Len(UpperCase) : UpperCase[k] = str[i]
        THEN LowerCase[CHOOSE k \in 1..Len(UpperCase) : UpperCase[k] = str[i]]
        ELSE str[i]]

\* stream_handler.rs:238-244 transform_google_chunk: finish_reason
stream_finish_reason(finish_reason) ==
    IF finish_reason = <<>> THEN <<>>
    ELSE LET r == finish_reason[1] IN
         <<CASE r = <<"S","T","O","P">> -> <<"s","t","o","p">>
             [] r = <<"M","A","X","_","T","O","K","E","N","S">>
                   -> <<"l","e","n","g","t","h">>
             [] OTHER -> to_lowercase(r)>>

\* google.rs:144-152 transform_response: finish_reason
response_finish_reason(finish_reason) ==
    IF finish_reason = <<>> THEN <<>>
    ELSE LET r == finish_reason[1] IN
         <<CASE r = <<"S","T","O","P">> -> <<"s","t","o","p">>
             [] r = <<"M","A","X","_","T","O","K","E","N","S">>
                   -> <<"l","e","n","g","t","h">>
             [] r = <<"S","A","F","E","T","Y">>
                   -> <<"c","o","n","t","e","n","t","_","f","i","l","t","e","r">>
             [] r = <<"R","E","C","I","T","A","T","I","O","N">>
                   -> <<"c","o","n","t","e","n","t","_","f","i","l","t","e","r">>
             [] OTHER -> to_lowercase(r)>>

XformIdle ==
    /\ xOp = "idle"
    /\ xIn = <<>>
    /\ xOut = <<>>

\* A transformer is about to be called on an argument of its type.
XformInit ==
    /\ \/ xOp = "anthropic_request" /\ xIn \in {<<r>> : r \in Requests}
       \/ xOp = "google_request" /\ xIn \in {<<r>> : r \in Requests}
       \/ xOp = "anthropic_response" /\ xIn \in {<<u>> : u \in AnthropicUsages}
       \/ xOp = "google_response" /\ xIn \in {<<u>> : u \in GoogleUsages}
       \/ xOp = "qwen_response" /\ xIn \in {<<u>> : u \in QwenUsages}
       \/ xOp = "calculate_cost" /\ xIn \in {<<c>> : c \in CostInputs}
       \/ xOp = "google_finish" /\ xIn \in {<<f>> : f \in Option(FinishReasons)}
    /\ xOut = <<>>

Apply(op, result) ==
    /\ xOp = op
    /\ xOut = <<>>
    /\ xOut' = <<result>>
    /\ UNCHANGED <<xOp, xIn>>

AnthropicTransformRequest ==
    /\ Apply("anthropic_request", transform_request(xIn[1]))
    /\ UNCHANGED notXform

GoogleTransformRequest ==
    /\ Apply("google_request", google_transform_request(xIn[1]))
    /\ UNCHANGED notXform

AnthropicTransformResponse ==
    /\ Apply("anthropic_response", anthropic_usage(xIn[1]))
    /\ UNCHANGED notXform

GoogleTransformResponse ==
    /\ Apply("google_response", google_usage(xIn[1]))
    /\ UNCHANGED notXform

QwenTransformResponse ==
    /\ Apply("qwen_response", qwen_usage(xIn[1]))
    /\ UNCHANGED notXform

CalculateCost ==
    /\ Apply("calculate_cost",
             calculate_cost(xIn[1].provider, xIn[1].model,
                            xIn[1].prompt_tokens, xIn[1].completion_tokens))
    /\ UNCHANGED notXform

\* The same candidate on the streaming and on the non-streaming path.
GoogleFinishReason ==
    /\ Apply("google_finish",
             [stream |-> stream_finish_reason(xIn[1]),
              response |-> response_finish_reason(xIn[1])])
    /\ UNCHANGED notXform

XformNext ==
    \/ AnthropicTransformRequest
    \/ GoogleTransformRequest
    \/ AnthropicTransformResponse
    \/ GoogleTransformResponse
    \/ QwenTransformResponse
    \/ CalculateCost
    \/ GoogleFinishReason

-----------------------------------------------------------------------------
(* Claims about the transformers (SpecTransform).                          *)

\* C8: the usage of every unified response made by the Anthropic, Google or
\* Qwen transform_response has total_tokens = prompt_tokens +
\* completion_tokens, also when the native usage or its total is absent or
\* the native total is not the sum.
C8_TotalIsSum ==
    (xOp \in {"anthropic_response", "google_response", "qwen_response"}
     /\ xOut # <<>>) =>
        xOut[1].total_tokens = xOut[1].prompt_tokens + xOut[1].completion_tokens

\* C10: for a request with at most one system message, the Anthropic
\* request holds exactly the non-system messages, in their order, role and
\* content unchanged; its system field is the content of the system
\* message, and is absent when there is none.
C10_AnthropicKeepsMessages ==
    LET msgs == xIn[1].messages
        sys == {i \in 1..Len(msgs) : msgs[i].role = "system"}
        rest == (1..Len(msgs)) \ sys
        Rank(i) == Cardinality({j \in rest : j <= i})
    IN  (xOp = "anthropic_request" /\ xOut # <<>> /\ Cardinality(sys) <= 1) =>
            /\ Len(xOut[1].messages) = Cardinality(rest)
            /\ \A i \in rest :
                  /\ xOut[1].messages[Rank(i)].role = msgs[i].role
                  /\ xOut[1].messages[Rank(i)].content = msgs[i].content
            /\ sys = {} => xOut[1].system = <<>>
            /\ \A i \in sys : xOut[1].system = <<msgs[i].content>>

\* A request whose system message stands between two others was transformed.
C10_Witness ==
    /\ xOp = "anthropic_request"
    /\ xOut # <<>>
    /\ Len(xIn[1].messages) = 3
    /\ xIn[1].messages[1].role = "user"
    /\ xIn[1].messages[2] = [role |-> "system", content |-> "hi"]
    /\ xIn[1].messages[3].role = "assistant"
    /\ Len(xOut[1].messages) = 2
    /\ xOut[1].system = <<"hi">>

\* C11: for a request with at most one system message, the Google request
\* holds one content per non-system message, in their order, the text
\* unchanged and the role unchanged but for assistant, which becomes model;
\* the system message is in systemInstruction alone, never in the contents.
C11_GoogleKeepsContents ==
    LET msgs == xIn[1].messages
        sys == {i \in 1..Len(msgs) : msgs[i].role = "system"}
        rest == (1..Len(msgs)) \ sys
        Rank(i) == Cardinality({j \in rest : j <= i})
        out == xOut[1]
    IN  (xOp = "google_request" /\ xOut # <<>> /\ Cardinality(sys) <= 1) =>
            /\ Len(out.contents) = Cardinality(rest)
            /\ \A i \in rest :
                  /\ out.contents[Rank(i)].parts = <<msgs[i].content>>
                  /\ msgs[i].role = "assistant" => out.contents[Rank(i)].role = "model"
                  /\ msgs[i].role # "assistant" =>
                        out.contents[Rank(i)].role = msgs[i].role
            /\ \A k \in 1..Len(out.contents) : out.contents[k].role # "system"
            /\ sys = {} => out.system_instruction = <<>>
            /\ \A i \in sys :
                  /\ Len(out.system_instruction) = 1
                  /\ out.system_instruction[1].parts = <<msgs[i].content>>

\* A request of a system, an assistant and a tool message was transformed.
C11_Witness ==
    /\ xOp = "google_request"
    /\ xOut # <<>>
    /\ Len(xIn[1].messages) = 3
    /\ xIn[1].messages[1] = [role |-> "system", content |-> "hi"]
    /\ xIn[1].messages[2].role = "assistant"
    /\ xIn[1].messages[3].role = "tool"
    /\ Len(xOut[1].contents) = 2
    /\ xOut[1].contents[1].role = "model"
    /\ xOut[1].contents[2].role = "tool"

\* C17: for a fixed provider and model and non-negative token counts,
\* calculate_cost is non-negative and non-decreasing in each count: the cost
\* of (a, b) is at most the cost of (a2, b2) whenever a <= a2 and b <= b2.
C17_CostMonotone ==
    (xOp = "calculate_cost" /\ xOut # <<>>) =>
        /\ xOut[1] >= 0
        /\ \A a2, b2 \in CostTokens :
              (xIn[1].prompt_tokens <= a2 /\ xIn[1].completion_tokens <= b2)
                 => xOut[1] <= calculate_cost(xIn[1].provider, xIn[1].model,
                                              a2, b2)

C17_Witness ==
    /\ xOp = "calculate_cost"
    /\ xOut # <<>>
    /\ xIn[1].prompt_tokens = 3 * TokenStep
    /\ xIn[1].completion_tokens = 1
    /\ xOut[1] = 1
    /\ calculate_cost(xIn[1].provider, xIn[1].model, 4 * TokenStep, 1) = 1
    /\ calculate_cost(xIn[1].provider, xIn[1].model, 4 * TokenStep,
                      TokenStep) = 2


\* C23: for every Google finishReason the streaming path yields the same
\* unified finish_reason as the non-streaming one: STOP gives stop,
\* MAX_TOKENS length, SAFETY and RECITATION content_filter, any other value
\* its lower-case form.
C23_SameFinishReason ==
    (xOp = "google_finish" /\ xOut # <<>>) =>
        /\ xOut[1].stream = xOut[1].response
        /\ xIn[1] \in {<<<<"S","A","F","E","T","Y">>>>,
                       <<<<"R","E","C","I","T","A","T","I","O","N">>>>}
              => xOut[1].stream =
                    <<<<"c","o","n","t","e","n","t","_","f","i","l","t","e","r">>>>

-----------------------------------------------------------------------------
(* utils/encryption.rs: EncryptionUtils::encrypt and ::decrypt.            *)
(*                                                                         *)
(* The cipher is the aes_gcm crate's Aes256Gcm, which is not part of this  *)
(* repository. It is modelled by a cipher of the same construction on      *)
(* 2-bit bytes: a counter-mode keystream xor-ed onto the plaintext, and a  *)
(* tag that is a polynomial hash of the ciphertext in the field of four    *)
(* elements, masked with a block of the keystream.                         *)

\* Bytes of the longest plaintext (1000 in the claim's statement, scaled).
MaxPlain == 3
\* Values the random 12-byte IV takes.
NumIVs == 2

\* encryption.rs:92  the tag is the last 16 bytes
TAG_LEN == 16

Bytes == 0..3
IVs == 0..(NumIVs - 1)
\* MASTER_ENCRYPTION_KEY
MasterKey == 2

\* Bitwise exclusive or of two bytes.
Xor(a, b) ==
    (((a % 2) + (b % 2)) % 2) + 2 * (((a \div 2) + (b \div 2)) % 2)

\* Multiplication in GF(4), 2 standing for x and 3 for x + 1.
Mul(a, b) ==
    IF a = 0 \/ b = 0 THEN 0
    ELSE IF a = 1 THEN b
    ELSE IF b = 1 THEN a
    ELSE IF a = b THEN (IF a = 2 THEN 3 ELSE 2)
    ELSE 1

RECURSIVE Pow(_, _)
Pow(a, n) == IF n = 0 THEN 1 ELSE Mul(a, Pow(a, n - 1))

\* The block cipher applied to (iv, counter).
Block(key, iv, ctr) == Xor(key, (iv + 2 * ctr + (ctr \div 2)) % 4)

RECURSIVE Horner(_, _)
Horner(h, ct) ==
    IF ct = <<>> THEN 0
    ELSE Mul(Xor(Horner(h, SubSeq(ct, 1, Len(ct) - 1)), ct[Len(ct)]), h)

\* The hash of a ciphertext and its length under the hash key h.
GHash(h, ct) == Mul(Xor(Horner(h, ct), Len(ct) % 4), h)

\* The tag of a ciphertext: TAG_LEN bytes.
Tag(key, iv, ct) ==
    LET h == Block(key, 0, 0) IN
    [j \in 1..TAG_LEN |-> Xor(Mul(GHash(h, ct), Pow(h, j)), Block(key, iv, 0))]

\* Aead::encrypt: the ciphertext followed by its tag.
aead_encrypt(key, iv, plain) ==
    LET ct == [i \in 1..Len(plain) |-> Xor(plain[i], Block(key, iv, i))]
    IN  ct \o Tag(key, iv, ct)

\* A cipher that does not compare the tag.
aead_decrypt_unverified(key, iv, sealed) ==
    IF Len(sealed) < TAG_LEN THEN <<"Err">>
    ELSE LET ct == SubSeq(sealed, 1, Len(sealed) - TAG_LEN)
         IN  <<"Ok", [i \in 1..Len(ct) |-> Xor(ct[i], Block(key, iv, i))]>>

\* Aead::decrypt: the plaintext, or an error when the input is shorter than
\* a tag or its tag is not the tag of its ciphertext.
aead_decrypt(key, iv, sealed) ==
    IF Len(sealed) < TAG_LEN THEN <<"Err">>
    ELSE LET ct == SubSeq(sealed, 1, Len(sealed) - TAG_LEN)
             tag == SubSeq(sealed, Len(sealed) - TAG_LEN + 1, Len(sealed))
         IN  IF tag # Tag(key, iv, ct) THEN <<"Err">>
             ELSE <<"Ok", [i \in 1..Len(ct) |-> Xor(ct[i], Block(key, iv, i))]>>

\* Text as bytes: 0 and 1 are one-byte characters, 2 is the first and 3 the
\* second byte of a two-byte character. String::from_utf8 accepts exactly
\* the byte strings made of whole characters.
Utf8Valid(bytes) ==
    \A i \in 1..Len(bytes) :
        /\ bytes[i] = 2 => (i < Len(bytes) /\ bytes[i + 1] = 3)
        /\ bytes[i] = 3 => (i > 1 /\ bytes[i - 1] = 2)

RECURSIVE ByteStrings(_)
ByteStrings(n) ==
    IF n = 0 THEN {<<>>}
    ELSE ByteStrings(n - 1) \cup
         {Append(s, b) : s \in {t \in ByteStrings(n - 1) : Len(t) = n - 1},
                         b \in Bytes}
\* plaintext: &str
Plaintexts == {s \in ByteStrings(MaxPlain) : Utf8Valid(s)}

\* encryption.rs:79-102 EncryptionUtils::encrypt, for the IV that OsRng gave.
encrypt(key, iv, plaintext) ==
    LET ciphertext_with_tag == aead_encrypt(key, iv, plaintext)
        tag_start == Len(ciphertext_with_tag) - TAG_LEN
    IN  [ciphertext |-> SubSeq(ciphertext_with_tag, 1, tag_start),
         iv |-> iv,
         auth_tag |-> SubSeq(ciphertext_with_tag, tag_start + 1,
                             Len(ciphertext_with_tag))]

\* A decrypt that puts the tag in front of the ciphertext.
decrypt_tag_first(key, encrypted) ==
    LET plaintext == aead_decrypt(key, encrypted.iv,
                                  encrypted.auth_tag \o encrypted.ciphertext)
    IN  IF plaintext[1] = "Ok" /\ Utf8Valid(plaintext[2])
        THEN <<"Ok", plaintext[2]>>
        ELSE <<"Err", "DecryptionFailed">>

\* encryption.rs:105-119 EncryptionUtils::decrypt
decrypt(key, encrypted) ==
    LET plaintext == aead_decrypt(key, encrypted.iv,
                                  encrypted.ciphertext \o encrypted.auth_tag)
    IN  IF plaintext[1] = "Ok" /\ Utf8Valid(plaintext[2])
        THEN <<"Ok", plaintext[2]>>
        ELSE <<"Err", "DecryptionFailed">>

NoData == [ciphertext |-> <<>>, iv |-> 0, auth_tag |-> <<>>]

VaultIdle ==
    /\ vPc = "idle"
    /\ vPlain = <<>>
    /\ vData = NoData
    /\ vTampered = FALSE
    /\ vResult = <<>>

\* A plaintext is about to be encrypted.
VaultInit ==
    /\ vPc = "plain"
    /\ vPlain \in Plaintexts
    /\ vData = NoData
    /\ vTampered = FALSE
    /\ vResult = <<>>

Encrypt ==
    /\ vPc = "plain"
    /\ \E iv \in IVs : vData' = encrypt(MasterKey, iv, vPlain)
    /\ vPc' = "stored"
    /\ UNCHANGED <<vPlain, vTampered, vResult>>
    /\ UNCHANGED notVault

\* One bit of a byte.
FlipBit(byte, bit) == Xor(byte, bit)

\* The stored {ciphertext, iv, tag} is changed in one bit of the ciphertext
\* or of the tag.
Tamper ==
    /\ vPc = "stored"
    /\ ~vTampered
    /\ \E field \in {"ciphertext", "auth_tag"}, bit \in {1, 2} :
          \E i \in 1..Len(vData[field]) :
             vData' = [vData EXCEPT ![field][i] = FlipBit(@, bit)]
    /\ vTampered' = TRUE
    /\ UNCHANGED <<vPc, vPlain, vResult>>
    /\ UNCHANGED notVault

Decrypt ==
    /\ vPc = "stored"
    /\ vResult' = decrypt(MasterKey, vData)
    /\ vPc' = "decrypted"
    /\ UNCHANGED <<vPlain, vData, vTampered>>
    /\ UNCHANGED notVault

VaultNext ==
    \/ Encrypt
    \/ Tamper
    \/ Decrypt

-----------------------------------------------------------------------------
(* Claims about the encryption (SpecVault).                                *)

\* C12: for every plaintext of 1 to MaxPlain bytes and the fixed master key,
\* decrypt of what encrypt returned, unchanged, gives that plaintext back.
C12_DecryptOfEncrypt ==
    (vPc = "decrypted" /\ ~vTampered /\ Len(vPlain) >= 1) =>
        vResult = <<"Ok", vPlain>>

\* A plaintext of three bytes with a two-byte character came back.
C12_Witness ==
    /\ vPc = "decrypted"
    /\ ~vTampered
    /\ vPlain = <<1, 2, 3>>
    /\ vData.ciphertext # vPlain
    /\ vResult = <<"Ok", <<1, 2, 3>>>>

\* C13: after one bit of the ciphertext or of the tag of an encrypt output
\* was changed, decrypt returns an error, never a plaintext.
C13_TamperedFailsClosed ==
    (vPc = "decrypted" /\ vTampered) => vResult = <<"Err", "DecryptionFailed">>

\* A ciphertext byte was changed and decrypt refused.
C13_Witness ==
    /\ vPc = "decrypted"
    /\ vTampered
    /\ vData.ciphertext # encrypt(MasterKey, vData.iv, vPlain).ciphertext
    /\ vData.auth_tag = encrypt(MasterKey, vData.iv, vPlain).auth_tag
    /\ vResult[1] = "Err"

-----------------------------------------------------------------------------
(* services/proxy_key_service.rs and middleware/auth.rs: the credentials   *)
(* the proxy issues to an account, their revocation and their validation.  *)
(* Every database statement is one step: it is answered, or it fails and   *)
(* changes nothing. A call with more than one statement can be overtaken   *)
(* between them by the calls of the other caller.                          *)

MaxKeys == 6
MaxKeyCalls == 6
\* models/user.rs:28, Free
FreeKeyCap == 1
\* models/user.rs:29, Starter
StarterKeyCap == 5

KeyIds == 1..MaxKeys
KeyCallers == {"k1", "k2"}
\* the account whose credentials are modelled, and a stranger
Account == "u1"
KeyUsers == {Account, "u2"}
PlanTiers == {"Free", "Starter", "Pro", "Team"}
DbOutcomes == {"answered", "failed"}

\* models/user.rs:26-32
api_key_limit(tier) ==
    CASE tier = "Free" -> <<FreeKeyCap>>
      [] tier = "Starter" -> <<StarterKeyCap>>
      [] OTHER -> <<>>

\* models/proxy_api_key.rs:9
PROXY_KEY_PREFIX == <<"w", "b", "r", "_">>

\* proxy_key_service.rs:80-84: the prefix and 32 random bytes; the bytes
\* drawn for the row with id k are written k, those never drawn 0.
plaintext_key(k) == PROXY_KEY_PREFIX \o <<k>>

\* utils/password.rs: Argon2id; a hash is not the password, and verifies
\* the password it was made from and no other.
hash_password(password) == <<"$argon2">> \o password
verify_password(password, hash) == hash = hash_password(password)

\* What a client can put behind "Bearer ": an issued key, a key with the
\* prefix that was never issued, a key of another format.
PresentedKeys ==
    {plaintext_key(k) : k \in KeyIds}
        \cup {plaintext_key(0), <<"s", "k", "-", 1>>}

\* models/proxy_api_key.rs:12-24, the columns the service reads and writes
NoRow ==
    [user_id |-> "none", key_hash |-> <<>>, is_active |-> FALSE,
     last_used_at |-> "NULL", request_count |-> 0]

NoCall ==
    [op |-> "none", pc |-> "idle", key |-> <<>>, key_id |-> 0,
     proxy_key |-> NoRow, result |-> "none", status |-> 0, code |-> "none",
     passed |-> FALSE, late |-> FALSE]

KeysIdle ==
    /\ kPlan = "Free"
    /\ kKeys = [k \in KeyIds |-> NoRow]
    /\ kCall = [c \in KeyCallers |-> NoCall]
    /\ kAudit = [calls |-> 0, ok |-> [k \in KeyIds |-> 0], revoked |-> {},
                 overlap |-> FALSE]

KeysInit ==
    /\ kPlan \in PlanTiers
    /\ kKeys = [k \in KeyIds |-> NoRow]
    /\ kCall = [c \in KeyCallers |-> NoCall]
    /\ kAudit = [calls |-> 0, ok |-> [k \in KeyIds |-> 0], revoked |-> {},
                 overlap |-> FALSE]

\* proxy_key_service.rs:70-72: SELECT COUNT(*) .. WHERE user_id = $1 AND
\* is_active = true
ActiveCount(table, user) ==
    Cardinality({k \in KeyIds :
                    table[k].user_id = user /\ table[k].is_active})

\* A limit test that lets the count pass the limit by one.
limit_reached_strict(count, limit) == count > limit

\* proxy_key_service.rs:77: count.0 >= limit as i64
limit_reached(count, limit) == count >= limit

\* A query that leaves out the is_active filter.
select_every_row(table) == {k \in KeyIds : table[k] # NoRow}

\* proxy_key_service.rs:183-191: SELECT .. WHERE is_active = true
select_active(table) == {k \in KeyIds : table[k].is_active}

\* An update that writes back the count read by the SELECT, plus one.
usage_update_from_fetched(row, fetched) ==
    [row EXCEPT !.last_used_at = "NOW",
                !.request_count = fetched.request_count + 1]

\* proxy_key_service.rs:196-198: UPDATE .. SET last_used_at = NOW(),
\* request_count = request_count + 1 WHERE id = $1
usage_update(row, fetched) ==
    [row EXCEPT !.last_used_at = "NOW", !.request_count = @ + 1]

\* A generate_key call of another caller is between its two statements.
GenerateInFlight(c) ==
    \E d \in KeyCallers \ {c} :
        kCall[d].op = "generate" /\ kCall[d].pc = "insert"

\* The call of caller c has returned.
Returned(c, started, result) ==
    kCall' = [kCall EXCEPT ![c] = [started EXCEPT !.pc = "done",
                                                  !.result = result]]

\* proxy_key_service.rs:61-79: generate_key up to its limit check
GenerateKey(c) ==
    /\ kCall[c].pc = "idle"
    /\ kAudit.calls < MaxKeyCalls
    /\ Cardinality({k \in KeyIds : kKeys[k] # NoRow})
         + Cardinality({d \in KeyCallers : kCall[d].pc = "insert"}) < MaxKeys
    /\ LET limit == api_key_limit(kPlan)
           started == [NoCall EXCEPT !.op = "generate"]
       IN  \E outcome \in DbOutcomes :
              IF limit = <<>>
              THEN /\ outcome = "answered"
                   /\ kCall' = [kCall EXCEPT ![c] =
                                   [started EXCEPT !.pc = "insert"]]
              ELSE IF outcome = "failed"
              THEN Returned(c, started, "DatabaseError")
              ELSE IF limit_reached(ActiveCount(kKeys, Account), limit[1])
              THEN Returned(c, started, "KeyLimitReached")
              ELSE kCall' = [kCall EXCEPT ![c] =
                                [started EXCEPT !.pc = "insert"]]
    /\ kAudit' = [kAudit EXCEPT !.calls = @ + 1,
                                !.overlap = @ \/ GenerateInFlight(c)]
    /\ UNCHANGED <<kPlan, kKeys>>
    /\ UNCHANGED notKeys

\* proxy_key_service.rs:81-119: generate_key from the random key to the
\* INSERT and the return of the plaintext key
InsertKey(c) ==
    /\ kCall[c].op = "generate"
    /\ kCall[c].pc = "insert"
    /\ \E outcome \in DbOutcomes :
          IF outcome = "failed"
          THEN /\ Returned(c, kCall[c], "DatabaseError")
               /\ UNCHANGED kKeys
          ELSE LET id == CHOOSE k \in KeyIds :
                            /\ kKeys[k] = NoRow
                            /\ \A j \in KeyIds : kKeys[j] = NoRow => k <= j
                   key_hash == hash_password(plaintext_key(id))
               IN  /\ kKeys' = [kKeys EXCEPT ![id] =
                                   [user_id |-> Account,
                                    key_hash |-> key_hash,
                                    is_active |-> TRUE,
                                    last_used_at |-> "NULL",
                                    request_count |-> 0]]
                   /\ Returned(c, [kCall[c] EXCEPT !.key_id = id,
                                       !.key = plaintext_key(id)], "Ok")
    /\ UNCHANGED <<kPlan, kAudit>>
    /\ UNCHANGED notKeys

\* proxy_key_service.rs:146-168: revoke_key
RevokeKey(c, user, key_id) ==
    /\ kCall[c].pc = "idle"
    /\ kAudit.calls < MaxKeyCalls
    /\ LET started == [NoCall EXCEPT !.op = "revoke", !.key_id = key_id]
           rows_affected ==
               IF kKeys[key_id] # NoRow /\ kKeys[key_id].user_id = user
               THEN 1 ELSE 0
       IN  \E outcome \in DbOutcomes :
              IF outcome = "failed"
              THEN /\ Returned(c, started, "DatabaseError")
                   /\ UNCHANGED kKeys
                   /\ kAudit' = [kAudit EXCEPT !.calls = @ + 1,
                                    !.overlap = @ \/ GenerateInFlight(c)]
              ELSE IF rows_affected = 0
              THEN /\ Returned(c, started, "NotFound")
                   /\ UNCHANGED kKeys
                   /\ kAudit' = [kAudit EXCEPT !.calls = @ + 1,
                                    !.overlap = @ \/ GenerateInFlight(c)]
              ELSE /\ Returned(c, started, "Ok")
                   /\ kKeys' = [kKeys EXCEPT ![key_id].is_active = FALSE]
                   /\ kAudit' = [kAudit EXCEPT !.calls = @ + 1,
                                    !.revoked = @ \cup {key_id},
                                    !.overlap = @ \/ GenerateInFlight(c)]
    /\ UNCHANGED kPlan
    /\ UNCHANGED notKeys

\* auth.rs:226-238: what api_key_auth makes of validate_key's result
Authenticated(c, started, result) ==
    IF result = "Ok"
    THEN kCall' = [kCall EXCEPT ![c] =
                      [started EXCEPT !.pc = "done", !.result = result,
                                      !.passed = TRUE]]
    ELSE kCall' = [kCall EXCEPT ![c] =
                      [started EXCEPT !.pc = "done", !.result = result,
                                      !.status = 401,
                                      !.code = "INVALID_API_KEY"]]

\* auth.rs:169-224: api_key_auth up to its validate_key call, and
\* proxy_key_service.rs:172-194: validate_key up to the row that verifies
ApiKeyAuth(c, key) ==
    /\ kCall[c].pc = "idle"
    /\ kAudit.calls < MaxKeyCalls
    /\ LET started ==
               [NoCall EXCEPT !.op = "validate", !.key = key,
                   !.late = \E k \in kAudit.revoked : key = plaintext_key(k)]
       IN  IF ~starts_with(key, PROXY_KEY_PREFIX)
           THEN kCall' = [kCall EXCEPT ![c] =
                             [started EXCEPT !.pc = "done", !.status = 401,
                                             !.code = "INVALID_KEY_FORMAT"]]
           ELSE \E outcome \in DbOutcomes :
                   IF outcome = "failed"
                   THEN Authenticated(c, started, "DatabaseError")
                   ELSE LET keys == select_active(kKeys)
                            hits == {k \in keys :
                                       verify_password(key, kKeys[k].key_hash)}
                        IN  IF hits = {}
                            THEN Authenticated(c, started, "NotFound")
                            ELSE LET id == CHOOSE k \in hits : TRUE
                                 IN  kCall' = [kCall EXCEPT ![c] =
                                        [started EXCEPT !.pc = "update",
                                            !.key_id = id,
                                            !.proxy_key = kKeys[id]]]
    /\ kAudit' = [kAudit EXCEPT !.calls = @ + 1]
    /\ UNCHANGED <<kPlan, kKeys>>
    /\ UNCHANGED notKeys

\* proxy_key_service.rs:195-203: validate_key's UPDATE and return, and
\* auth.rs:226-238
UpdateUsage(c) ==
    /\ kCall[c].op = "validate"
    /\ kCall[c].pc = "update"
    /\ \E outcome \in DbOutcomes :
          IF outcome = "failed"
          THEN /\ Authenticated(c, kCall[c], "DatabaseError")
               /\ UNCHANGED <<kKeys, kAudit>>
          ELSE LET id == kCall[c].key_id
               IN  /\ kKeys' = [kKeys EXCEPT ![id] =
                                   usage_update(@, kCall[c].proxy_key)]
                   /\ Authenticated(c, kCall[c], "Ok")
                   /\ kAudit' = [kAudit EXCEPT !.ok[id] = @ + 1]
    /\ UNCHANGED kPlan
    /\ UNCHANGED notKeys

\* The caller has its answer and is free for its next call.
Return(c) ==
    /\ kCall[c].pc = "done"
    /\ kCall' = [kCall EXCEPT ![c] = NoCall]
    /\ UNCHANGED <<kPlan, kKeys, kAudit>>
    /\ UNCHANGED notKeys

KeysNext ==
    \E c \in KeyCallers :
        \/ GenerateKey(c)
        \/ InsertKey(c)
        \/ \E user \in KeyUsers, key_id \in KeyIds : RevokeKey(c, user, key_id)
        \/ \E key \in PresentedKeys : ApiKeyAuth(c, key)
        \/ UpdateUsage(c)
        \/ Return(c)

\* C14: the request counter of every credential equals the number of
\* validations of it that succeeded, also when validations run at the same
\* time; a validation that succeeds adds exactly 1 to the counter of its
\* credential and sets its last-used time, and a validation that returns
\* NotFound changes no row.
C14_CounterMatches ==
    \A k \in KeyIds : kKeys[k].request_count = kAudit.ok[k]

C14_ValidationStep ==
    \A c \in KeyCallers :
        /\ (kCall[c].pc = "update" /\ kCall'[c].result = "Ok")
              => LET id == kCall[c].key_id
                 IN  /\ kKeys'[id].request_count = kKeys[id].request_count + 1
                     /\ kKeys'[id].last_used_at = "NOW"
        /\ (/\ kCall[c].pc \in {"idle", "update"}
            /\ kCall'[c].op = "validate"
            /\ kCall'[c].result = "NotFound")
              => kKeys' = kKeys

LateValidation(c) ==
    /\ kCall[c].op = "validate"
    /\ kCall[c].late
    /\ kCall[c].pc = "done"

\* C15 (as stated): after revoke_key has completed for a credential, every
\* later validate_key call presenting its secret returns NotFound.
C15_LateValidationNotFound ==
    \A c \in KeyCallers : LateValidation(c) => kCall[c].result = "NotFound"

\* C15: after revoke_key has completed for a credential, no later
\* validate_key call presenting its secret finds a row: it returns NotFound,
\* or DatabaseError when its query fails; either way the caller is answered
\* with HTTP 401 and the request is not passed on, so no upstream call is
\* made for it. A revoked credential is never active again.
C15_RevokedIsRejected ==
    /\ \A k \in kAudit.revoked : ~kKeys[k].is_active
    /\ \A c \in KeyCallers :
          /\ (kCall[c].op = "validate" /\ kCall[c].late)
                => kCall[c].pc # "update"
          /\ LateValidation(c)
                => /\ kCall[c].result \in {"NotFound", "DatabaseError"}
                   /\ kCall[c].status = 401
                   /\ ~kCall[c].passed

C15_Witness ==
    \E c \in KeyCallers :
        /\ LateValidation(c)
        /\ kCall[c].result = "NotFound"
        /\ kAudit.ok[kCall[c].key[5]] > 0

-----------------------------------------------------------------------------
(* services/api_key_service.rs: store_provider_key, delete_provider_key.   *)
(*                                                                         *)
(* The api_keys table is a sequence of rows in insertion order. A provider *)
(* key is text cut into the pieces validate_key_format tells apart.        *)

\* Rows inserted during one run of the model.
MaxStores == 3
\* store_provider_key and delete_provider_key calls during one run.
MaxCredCalls == 4

\* models/api_key.rs:10-20  AiProvider
AiProviders == {"openai", "anthropic", "google", "qwen"}

\* The providers keys are submitted for.
SubmittedProviders == {"openai", "anthropic", "qwen"}

\* The keys submitted: an OpenAI key, an Anthropic key, text with none of the
\* prefixes, the empty string.
SubmittedKeys == {<<"sk-", "k">>, <<"sk-", "ant-", "k">>, <<"pk">>, <<>>}

\* models/api_key.rs:34-41  AiProvider::validate_key_format
validate_key_format(provider, key) ==
    CASE provider = "openai" -> starts_with(key, <<"sk-">>)
      [] provider = "anthropic" -> starts_with(key, <<"sk-", "ant-">>)
      [] provider = "google" -> starts_with(key, <<"AI">>)
      [] provider = "qwen" -> key # <<>>

\* str::as_bytes: one byte of the model's alphabet for each piece of the key.
as_bytes(key) ==
    [i \in 1..Len(key) |->
        CASE key[i] = "sk-" -> 1
          [] key[i] = "ant-" -> 2
          [] key[i] = "AI" -> 3
          [] OTHER -> 0]

CredsIdle ==
    /\ cRows = <<>>
    /\ cStored = <<>>
    /\ cCalls = 0
    /\ cLast = "none"

\* The table is empty when the service starts.
CredsInit == CredsIdle

\* The api_keys table is created by the migrations, which are not part of
\* the source tree; the data model has one row per (user, provider), so the
\* INSERT of a second row for the pair is taken to fail on the table's
\* unique constraint (api_key_service.rs:93-108).
unique_violation(rows, user_id, provider) ==
    \E i \in 1..Len(rows) :
        rows[i].user_id = user_id /\ rows[i].provider = provider

\* api_key_service.rs:72-117  store_provider_key: validate the format,
\* encrypt with the IV that OsRng gave, INSERT a new active row.
StoreProviderKey(user_id, provider, key, iv, db) ==
    /\ cCalls < MaxCredCalls
    /\ Len(cStored) < MaxStores
    /\ cCalls' = cCalls + 1
    /\ IF ~validate_key_format(provider, key)
       THEN /\ cLast' = "InvalidKeyFormat"
            /\ db = "answered" /\ iv = 0
            /\ UNCHANGED <<cRows, cStored>>
       ELSE IF db = "failed" \/ unique_violation(cRows, user_id, provider)
       THEN /\ cLast' = "DatabaseError"
            /\ UNCHANGED <<cRows, cStored>>
       ELSE LET encrypted == encrypt(MasterKey, iv, as_bytes(key))
                row == [id |-> Len(cStored) + 1,
                        user_id |-> user_id,
                        provider |-> provider,
                        encrypted_key |-> encrypted.ciphertext,
                        iv |-> encrypted.iv,
                        auth_tag |-> encrypted.auth_tag,
                        is_active |-> TRUE]
            IN  /\ cRows' = Append(cRows, row)
                /\ cStored' = Append(cStored, row)
                /\ cLast' = "Ok"
    /\ UNCHANGED notCreds

\* api_key_service.rs:174-182  DELETE FROM api_keys WHERE id = $1 AND
\* user_id = $2: the table after the statement.
delete_rows(rows, key_id, user_id) ==
    LET Kept(r) == ~(r.id = key_id /\ r.user_id = user_id) IN
    SelectSeq(rows, Kept)

\* api_key_service.rs:168-190  delete_provider_key.
DeleteProviderKey(user_id, key_id, db) ==
    /\ cCalls < MaxCredCalls
    /\ cCalls' = cCalls + 1
    /\ IF db = "failed"
       THEN /\ cLast' = "DatabaseError"
            /\ UNCHANGED cRows
       ELSE LET rows_affected ==
                    Cardinality({i \in 1..Len(cRows) :
                        cRows[i].id = key_id /\ cRows[i].user_id = user_id})
            IN  /\ cRows' = delete_rows(cRows, key_id, user_id)
                /\ cLast' = IF rows_affected = 0 THEN "NotFound" ELSE "Ok"
    /\ UNCHANGED cStored
    /\ UNCHANGED notCreds

CredsNext ==
    \/ \E u \in KeyUsers, p \in SubmittedProviders, key \in SubmittedKeys,
         iv \in IVs, db \in DbOutcomes : StoreProviderKey(u, p, key, iv, db)
    \/ \E u \in KeyUsers, id \in 1..MaxStores, db \in DbOutcomes :
         DeleteProviderKey(u, id, db)

-----------------------------------------------------------------------------
(* Claims about the provider credentials (SpecCreds).                      *)

\* C28: after any sequence of store_provider_key and delete_provider_key
\* calls there is at most one active row per (user, provider), and every row
\* ever stored is still in the table with the ciphertext, IV and tag it was
\* stored with: a revoked row is deactivated, not removed.
C28_OneActiveRowNeverRemoved ==
    /\ \A u \in KeyUsers, p \in AiProviders :
          Cardinality({i \in 1..Len(cRows) :
              /\ cRows[i].user_id = u
              /\ cRows[i].provider = p
              /\ cRows[i].is_active}) <= 1
    /\ \A n \in 1..Len(cStored) :
          \E i \in 1..Len(cRows) :
              /\ cRows[i].id = cStored[n].id
              /\ cRows[i].encrypted_key = cStored[n].encrypted_key
              /\ cRows[i].iv = cStored[n].iv
              /\ cRows[i].auth_tag = cStored[n].auth_tag

-----------------------------------------------------------------------------
(* The specifications: one machine runs, the others stay idle.             *)

InitLimiter ==
    LimiterInit /\ StreamIdle /\ ProxyIdle /\ XformIdle /\ VaultIdle /\ KeysIdle
    /\ CredsIdle
SpecLimiter == InitLimiter /\ [][LimiterNext]_vars

InitStream ==
    StreamInit /\ LimiterIdle /\ ProxyIdle /\ XformIdle /\ VaultIdle /\ KeysIdle
    /\ CredsIdle
SpecStream == InitStream /\ [][StreamNext]_vars

Init ==
    ProxyInit /\ LimiterIdle /\ StreamIdle /\ XformIdle /\ VaultIdle /\ KeysIdle
    /\ CredsIdle
Spec == Init /\ [][ProxyNext]_vars
\* The handler is an async task the runtime keeps polling: a step that can
\* be taken is taken.
FairSpec == Init /\ [][ProxyNext]_vars /\ WF_vars(ProxyNext)

InitTransform ==
    XformInit /\ LimiterIdle /\ StreamIdle /\ ProxyIdle /\ VaultIdle /\ KeysIdle
    /\ CredsIdle
SpecTransform == InitTransform /\ [][XformNext]_vars

InitVault ==
    VaultInit /\ LimiterIdle /\ StreamIdle /\ ProxyIdle /\ XformIdle /\ KeysIdle
    /\ CredsIdle
SpecVault == InitVault /\ [][VaultNext]_vars

InitKeys ==
    KeysInit /\ LimiterIdle /\ StreamIdle /\ ProxyIdle /\ XformIdle /\ VaultIdle
    /\ CredsIdle
SpecKeys == InitKeys /\ [][KeysNext]_vars

InitCreds ==
    CredsInit /\ LimiterIdle /\ StreamIdle /\ ProxyIdle /\ XformIdle /\ VaultIdle
    /\ KeysIdle
SpecCreds == InitCreds /\ [][CredsNext]_vars

=============================================================================
